---- MODULE Spec2Model ----
(***************************************************************************)
(* Model of the ivy backend-switching runtime.                             *)
(*   - ivy/framework_handler.py : framework stack, namespace rebinding,    *)
(*     ContextManager, current_framework                                    *)
(*   - ivy/functional/ivy/device.py : default device stack, DevMapper      *)
(***************************************************************************)
EXTENDS Integers, Sequences, FiniteSets, TLC

VARIABLES framework_stack,        \* framework_handler.framework_stack
          default_device_stack,   \* device.default_device_stack
          ivy_dict,               \* ivy.__dict__ (the public namespace)
          ivy_original_dict,      \* framework_handler.ivy_original_dict
          ivy_original_fn_dict,   \* framework_handler.ivy_original_fn_dict
          mod_dict,               \* __dict__ of every backend module
          last,                   \* the call that produced this state
          cf_call,                \* arguments of the last current_framework call
          pushed,                 \* history: modules pushed and not yet popped
          blocks,                 \* open `with ContextManager(module)` blocks
          exc,                    \* an exception is propagating out of a block
          input_queues,           \* DevMapper._input_queues
          output_queues,          \* DevMapper._output_queues
          workers,                \* position of every worker process
          coord,                  \* position of the coordinator inside map
          hist,                   \* history of the device mapper
          closed,                 \* which queues of the device mapper are closed
          td,                     \* teardown: DevManager._dev_mapper and history
          arr,                    \* the last call on arrays: arguments and result
          dm,                     \* the DevManager and its last call
          sim,                    \* the simulated devices whose telemetry drives tuning
          dd,                     \* the last call on the default device stack
          conv,                   \* the last conversion of a device string
          sfc,                    \* the last split_func_call: arguments and result
          mdi                     \* a multi-device item and the last query on it

fwvars  == <<framework_stack, default_device_stack, ivy_dict, ivy_original_dict,
             ivy_original_fn_dict, mod_dict, last, cf_call, pushed, blocks, exc>>
mapvars == <<input_queues, output_queues, workers, coord, hist>>
delvars == <<closed, td>>
arrvars == <<arr>>
dmvars  == <<dm>>
simvars == <<sim>>
ddvars  == <<dd>>
convvars == <<conv>>
sfcvars == <<sfc>>
mdivars == <<mdi>>
vars    == <<framework_stack, default_device_stack, ivy_dict, ivy_original_dict,
             ivy_original_fn_dict, mod_dict, last, cf_call, pushed, blocks, exc,
             input_queues, output_queues, workers, coord, hist, closed, td, arr, dm,
             sim, dd, conv, sfc, mdi>>

\* what the calls of one part of the library leave alone
NotFw  == <<mapvars, delvars, arrvars, dmvars, simvars, ddvars, convvars, sfcvars, mdivars>>
NotMap == <<fwvars, delvars, arrvars, dmvars, simvars, ddvars, convvars, sfcvars, mdivars>>
NotDel == <<fwvars, arrvars, dmvars, simvars, ddvars, convvars, sfcvars, mdivars>>
NotArr == <<fwvars, mapvars, delvars, dmvars, simvars, ddvars, convvars, sfcvars, mdivars>>
NotDm  == <<fwvars, mapvars, delvars, arrvars, simvars, ddvars, convvars, sfcvars, mdivars>>
NotSim == <<fwvars, mapvars, delvars, arrvars, ddvars, convvars, sfcvars, mdivars>>
NotDd == <<framework_stack, ivy_dict, ivy_original_dict, ivy_original_fn_dict, mod_dict,
           last, cf_call, pushed, blocks, exc,
           mapvars, delvars, arrvars, dmvars, simvars, convvars, sfcvars, mdivars>>
NotSfc == <<fwvars, mapvars, delvars, arrvars, dmvars, simvars, ddvars, convvars, mdivars>>
NotConv == <<fwvars, mapvars, delvars, arrvars, dmvars, simvars, ddvars, sfcvars, mdivars>>
NotItem == <<fwvars, mapvars, delvars, arrvars, dmvars, simvars, ddvars, convvars, sfcvars>>

(***************************************************************************)
(* Bounds                                                                  *)
(***************************************************************************)
MaxDepth == 3      \* deepest framework stack explored
MaxCalls == 2      \* map calls made on one device mapper

(***************************************************************************)
(* Generic helpers                                                         *)
(***************************************************************************)
None == "None"

Last(s)  == s[Len(s)]
Front(s) == SubSeq(s, 1, Len(s) - 1)

RECURSIVE Reverse(_)
Reverse(s) == IF s = <<>> THEN <<>> ELSE Append(Reverse(Tail(s)), Head(s))

RECURSIVE Count(_, _)
Count(s, x) == IF s = <<>> THEN 0
               ELSE (IF Head(s) = x THEN 1 ELSE 0) + Count(Tail(s), x)

Range(s) == {s[i] : i \in 1..Len(s)}

\* dict d with the entries of e written over it
Update(d, e) == [k \in DOMAIN d \cup DOMAIN e |-> IF k \in DOMAIN e THEN e[k] ELSE d[k]]
\* dict d after `del d[k]`
Delete(d, k) == [x \in DOMAIN d \ {k} |-> d[x]]
EmptyDict == [k \in {} |-> None]

(***************************************************************************)
(* Device strings are sequences of characters                              *)
(***************************************************************************)
Digits == {"0", "1", "2", "3", "4", "5", "6", "7", "8", "9"}
cpu == <<"c", "p", "u">>
gpu == <<"g", "p", "u">>
tpu == <<"t", "p", "u">>

\* str.isnumeric on the characters the model draws
isnumeric(s) == s # <<>> /\ \A i \in 1..Len(s) : s[i] \in Digits

\* TRUE when _assert_dev_correct_formatting(dev) returns without raising
_assert_dev_correct_formatting(dev) ==
    /\ SubSeq(dev, 1, IF Len(dev) < 3 THEN Len(dev) ELSE 3) \in {gpu, tpu, cpu}
    /\ dev # cpu => /\ Len(dev) >= 4
                    /\ dev[4] = ":"
                    /\ isnumeric(SubSeq(dev, 5, Len(dev)))

\* set_default_device: the check comes before the push
set_default_device(dds, dev) ==
    IF _assert_dev_correct_formatting(dev)
    THEN [stack |-> Append(dds, dev), raised |-> FALSE]
    ELSE [stack |-> dds, raised |-> TRUE]

\* faulty variant: nothing is popped
UnsetPopsNothing(dds) == dds

\* unset_default_device, lines 330-333
unset_default_device(dds) == IF dds # <<>> THEN Front(dds) ELSE dds

(***************************************************************************)
(* Backend modules and the public namespace                                *)
(***************************************************************************)
Modules == {"numpy", "mxnet"}                \* backend modules the model loads

\* framework_handler._framework_dict: backend name -> the module it imports
_framework_dict == [n \in {"numpy", "jax", "tensorflow", "torch", "mxnet"} |-> n]

\* names a caller may hand to set_framework as a string
KnownNames   == Modules
UnknownNames == {"bogus"}

current_framework_str(m) == m

\* A namespace value: the object `owner` defines under `name`; wrapped tells
\* whether the function wrapper's adapter is around it.
Val(k, o) == [name |-> k, owner |-> o, wrapped |-> FALSE]

\* insertion order of the namespace keys: dtype constants come before
\* valid_dtype_strs, names that only a backend defines come last
NameOrder == <<"reduce_sum", "uint16", "valid_dtype_strs", "set_default_device",
               "_mxnet_init_context">>

Callables == {"reduce_sum", "set_default_device", "_mxnet_init_context"}

\* ivy.__dict__ before any backend was set
IvyNamespace == [k \in {"reduce_sum", "uint16", "valid_dtype_strs", "set_default_device"}
                    |-> Val(k, "ivy")]

\* the __dict__ of every backend module when it is imported
ModuleNamespace ==
    [m \in Modules |->
        IF m = "numpy"
        THEN [k \in {"reduce_sum", "uint16"} |-> Val(k, "numpy")]
        ELSE [k \in {"reduce_sum", "valid_dtype_strs", "_mxnet_init_context"} |-> Val(k, "mxnet")]]

\* the strings inside the tuple a valid_dtype_strs value holds: ivy's lists
\* every dtype string, mxnet's is bound to all_dtypes, a tuple of numpy types
DtypeStrsOf(v) == IF v.owner = "ivy" THEN {"uint16"} ELSE {}

\* ivy.valid_dtype_strs, read from the namespace as it is at that moment
valid_dtype_strs(ns) ==
    IF "valid_dtype_strs" \in DOMAIN ns THEN DtypeStrsOf(ns["valid_dtype_strs"]) ELSE {}

\* func_wrapper._wrap_methods / _unwrap_methods on the public namespace
_wrap_methods(ns) ==
    [k \in DOMAIN ns |-> IF k \in Callables THEN [ns[k] EXCEPT !.wrapped = TRUE] ELSE ns[k]]
_unwrap_methods(ns) ==
    [k \in DOMAIN ns |-> [ns[k] EXCEPT !.wrapped = FALSE]]

Unwrapped(v) == [v EXCEPT !.wrapped = FALSE]

(***************************************************************************)
(* The state the framework handler works on, as a record                   *)
(***************************************************************************)
FwState == [stack |-> framework_stack, dds |-> default_device_stack,
            ns |-> ivy_dict, snap |-> ivy_original_dict,
            fnd |-> ivy_original_fn_dict, mods |-> mod_dict]

\* faulty variant: a pop always rebinds from the snapshot
RebindFromSnapshot(st, stack) == st.snap

\* the source a namespace rebinds from after a pop
RebindSource(st, stack) == IF stack # <<>> THEN st.mods[Last(stack)] ELSE st.snap

\* unset_framework(): [st |-> state after, ret |-> returned module]
unset_framework(st) ==
    IF st.stack = <<>>
    THEN [st |-> st, ret |-> None]
    ELSE LET ns1   == _unwrap_methods(st.ns)
             fw    == Last(st.stack)
             stack == Front(st.stack)
             dds   == IF current_framework_str(fw) = "numpy"
                      THEN unset_default_device(st.dds) ELSE st.dds
             ns2   == Update(ns1, RebindSource(st, stack))
             ns3   == IF stack # <<>> THEN _wrap_methods(ns2) ELSE ns2
         IN  [st |-> [st EXCEPT !.stack = stack, !.dds = dds, !.ns = ns3], ret |-> fw]

\* `while framework_stack: temp_stack.append(unset_framework())`
RECURSIVE Unwind(_, _)
Unwind(st, temp) ==
    IF st.stack = <<>> THEN [st |-> st, temp |-> temp]
    ELSE LET r == unset_framework(st) IN Unwind(r.st, Append(temp, r.ret))

\* faulty variant: the unwound modules are pushed back without reversed()
ReplayUnreversed(stack, temp) == stack \o temp

\* `for fw in reversed(temp_stack): framework_stack.append(fw)`
Replay(stack, temp) == stack \o Reverse(temp)

\* the keys of a dict in iteration order
Keys(d) == SelectSeq(NameOrder, LAMBDA k : k \in DOMAIN d)

\* the loop of set_framework over ivy_original_dict.items(), from key i on;
\* acc = [ns, fd, fnd, err]: namespace, f.__dict__, reverse map, KeyError raised
RECURSIVE BindLoop(_, _, _, _)
BindLoop(i, keys, snap, acc) ==
    IF i > Len(keys) \/ acc.err THEN acc
    ELSE LET k == keys[i]
             v == snap[k]
         IN  IF k \notin DOMAIN acc.fd /\ k \in valid_dtype_strs(acc.ns)
             THEN IF k \in DOMAIN acc.ns
                  THEN BindLoop(i + 1, keys, snap, [acc EXCEPT !.ns = Delete(acc.ns, k)])
                  ELSE [acc EXCEPT !.err = TRUE]
             ELSE LET fd         == IF k \notin DOMAIN acc.fd
                                    THEN Update(acc.fd, [x \in {k} |-> v]) ELSE acc.fd
                      specific_v == fd[k]
                  IN  BindLoop(i + 1, keys, snap,
                               [acc EXCEPT !.fd = fd,
                                           !.ns = Update(acc.ns, [x \in {k} |-> specific_v]),
                                           !.fnd = Update(acc.fnd, [x \in {specific_v} |-> v])])

\* set_framework(f) from line 106 on: f is the resolved module
PushModule(st, f) ==
    LET dds   == IF current_framework_str(f) = "numpy"
                 THEN set_default_device(st.dds, cpu).stack ELSE st.dds
        stack == Append(st.stack, f)
        r     == BindLoop(1, Keys(st.snap), st.snap,
                          [ns |-> st.ns, fd |-> st.mods[f], fnd |-> EmptyDict, err |-> FALSE])
    IN  [st |-> [st EXCEPT !.stack = stack, !.dds = dds,
                           !.ns = IF r.err THEN r.ns ELSE _wrap_methods(r.ns),
                           !.fnd = r.fnd,
                           !.mods = [st.mods EXCEPT ![f] = r.fd]],
         raised |-> IF r.err THEN "KeyError" ELSE "none"]

\* the snapshot is taken when the stack is empty on entry
Snapshot(st) == IF st.stack = <<>> THEN [st EXCEPT !.snap = st.ns] ELSE st

\* set_framework(f), f a module
set_framework_module(st, f) == PushModule(Snapshot(st), f)

\* set_framework(f), f a string
set_framework_str(st, f) ==
    LET st0 == Snapshot(st)
        u   == Unwind(st0, <<>>)
    IN  IF f \notin DOMAIN _framework_dict
        THEN [st |-> u.st, raised |-> "KeyError"]
        ELSE PushModule([u.st EXCEPT !.stack = Replay(u.st.stack, u.temp)], _framework_dict[f])

(***************************************************************************)
(* current_framework                                                       *)
(***************************************************************************)
\* An argument value: an object of a class defined in module cls, or a
\* list / tuple / dict holding values (a dict by its values, in order).
Obj(c)        == [kind |-> "obj", cls |-> c, items |-> <<>>]
Box(kd, elts) == [kind |-> kd, cls |-> "", items |-> elts]

\* framework_handler._array_types composed with importlib.import_module:
\* module of the value's class -> backend module
_array_types ==
    [c \in {"numpy", "jax.interpreters.xla", "jaxlib.xla_extension",
            "tensorflow.python.framework.ops", "torch", "mxnet.ndarray.ndarray"} |->
        CASE c = "numpy" -> "numpy"
          [] c \in {"jax.interpreters.xla", "jaxlib.xla_extension"} -> "jax"
          [] c = "tensorflow.python.framework.ops" -> "tensorflow"
          [] c = "torch" -> "torch"
          [] OTHER -> "mxnet"]

\* faulty variant: the result of the search inside a container is returned unchecked
RECURSIVE DetermineUnchecked(_)
DetermineUnchecked(args) ==
    IF args = <<>> THEN None
    ELSE LET arg == Head(args)
         IN  IF arg.kind \in {"list", "tuple", "dict"}
             THEN DetermineUnchecked(arg.items)
             ELSE IF arg.cls \in DOMAIN _array_types
                  THEN _array_types[arg.cls]
                  ELSE DetermineUnchecked(Tail(args))

RECURSIVE _determine_framework_from_args(_)
_determine_framework_from_args(args) ==
    IF args = <<>> THEN None
    ELSE LET arg == Head(args)
         IN  IF arg.kind \in {"list", "tuple", "dict"}
             THEN LET lib == _determine_framework_from_args(arg.items)
                  IN  IF lib # None THEN lib
                      ELSE _determine_framework_from_args(Tail(args))
             ELSE IF arg.cls \in DOMAIN _array_types
                  THEN _array_types[arg.cls]
                  ELSE _determine_framework_from_args(Tail(args))

\* current_framework(*args, **kwargs): [ret, raised, msg]
current_framework(stack, args, kwargs) ==
    IF stack # <<>>
    THEN [ret |-> Last(stack), raised |-> "none", msg |-> <<>>]
    ELSE LET f == _determine_framework_from_args(args \o kwargs)
         IN  IF f = None
             THEN [ret |-> None, raised |-> "ValueError", msg |-> <<args, kwargs>>]
             ELSE [ret |-> f, raised |-> "none", msg |-> <<>>]

\* the argument values the model draws
LeafClasses == {"builtins", "numpy", "torch"}
Leaves      == {Obj(c) : c \in LeafClasses}
LeafSeqs    == {<<>>} \cup {<<a>> : a \in Leaves} \cup {<<a, b>> : a \in Leaves, b \in Leaves}
Flat        == Leaves \cup {Box(kd, s) : kd \in {"list", "dict"}, s \in LeafSeqs}
Nested      == Flat \cup {Box("tuple", <<a>>) : a \in Flat}
ArgLists    == {<<>>} \cup {<<a>> : a \in Nested}
KwargLists  == {<<>>} \cup {<<a>> : a \in Leaves}

(***************************************************************************)
(* Actions of the framework handler                                        *)
(***************************************************************************)
Commit(st) ==
    /\ framework_stack' = st.stack
    /\ default_device_stack' = st.dds
    /\ ivy_dict' = st.ns
    /\ ivy_original_dict' = st.snap
    /\ ivy_original_fn_dict' = st.fnd
    /\ mod_dict' = st.mods

Call(op, arg, ret, raised) == [op |-> op, arg |-> arg, ret |-> ret, raised |-> raised]
NoCall == [args |-> <<>>, kwargs |-> <<>>, msg |-> <<>>]

Outside == blocks = <<>> /\ ~exc

\* ivy.set_framework(module)
SetFrameworkModule(m) ==
    /\ Outside
    /\ Len(framework_stack) < MaxDepth /\ Len(pushed) < MaxDepth
    /\ LET r == set_framework_module(FwState, m)
       IN  /\ Commit(r.st)
           /\ last' = Call("set_framework", m, None, r.raised)
           /\ pushed' = Append(pushed, m)
    /\ cf_call' = NoCall
    /\ UNCHANGED <<blocks, exc>>

\* ivy.set_framework("name"), the name a key of _framework_dict
SetFrameworkStr(n) ==
    /\ Outside
    /\ Len(framework_stack) < MaxDepth /\ Len(pushed) < MaxDepth
    /\ LET r == set_framework_str(FwState, n)
       IN  /\ Commit(r.st)
           /\ last' = Call("set_framework_str", n, None, r.raised)
           /\ pushed' = Append(pushed, _framework_dict[n])
    /\ cf_call' = NoCall
    /\ UNCHANGED <<blocks, exc>>

\* ivy.set_framework("name"), the name not a key of _framework_dict
SetFrameworkUnknown(n) ==
    /\ Outside
    /\ LET r == set_framework_str(FwState, n)
       IN  /\ Commit(r.st)
           /\ last' = Call("set_framework_str", n, None, r.raised)
    /\ cf_call' = NoCall
    /\ UNCHANGED <<pushed, blocks, exc>>

\* ivy.unset_framework()
UnsetFramework ==
    /\ Outside
    /\ LET r == unset_framework(FwState)
       IN  /\ Commit(r.st)
           /\ last' = Call("unset_framework", None, r.ret, "none")
    /\ pushed' = IF pushed = <<>> THEN pushed ELSE Front(pushed)
    /\ cf_call' = NoCall
    /\ UNCHANGED <<blocks, exc>>

\* ivy.current_framework(*args, **kwargs)
CurrentFramework(args, kwargs) ==
    /\ ~exc
    /\ LET r == current_framework(framework_stack, args, kwargs)
       IN  /\ last' = Call("current_framework", None, r.ret, r.raised)
           /\ cf_call' = [args |-> args, kwargs |-> kwargs, msg |-> r.msg]
    /\ UNCHANGED <<framework_stack, default_device_stack, ivy_dict, ivy_original_dict,
                   ivy_original_fn_dict, mod_dict, pushed, blocks, exc>>

\* ContextManager.__enter__ of `with ContextManager(m):`
Enter(m) ==
    /\ ~exc
    /\ Len(framework_stack) < MaxDepth
    /\ LET r == set_framework_module(FwState, m)
       IN  /\ Commit(r.st)
           /\ last' = Call("__enter__", m, None, r.raised)
    /\ pushed' = Append(pushed, m)
    /\ blocks' = Append(blocks, [module |-> m, before |-> framework_stack])
    /\ cf_call' = NoCall
    /\ UNCHANGED exc

\* the body of the innermost open block raises
RaiseInBlock ==
    /\ ~exc
    /\ blocks # <<>>
    /\ exc' = TRUE
    /\ last' = Call("raise", None, None, "Exception")
    /\ cf_call' = NoCall
    /\ UNCHANGED <<framework_stack, default_device_stack, ivy_dict, ivy_original_dict,
                   ivy_original_fn_dict, mod_dict, pushed, blocks>>

\* faulty variant: __exit__ returns a true value
ExitSwallows == TRUE

\* what ContextManager.__exit__ returns: None, so the exception is not swallowed
ExitSuppresses == FALSE

\* ContextManager.__exit__, at the normal end of the body or on an exception
Exit ==
    /\ blocks # <<>>
    /\ LET r == unset_framework(FwState)
       IN  /\ Commit(r.st)
           /\ last' = Call("__exit__", Last(blocks).module, r.ret,
                           IF exc THEN "Exception" ELSE "none")
    /\ pushed' = IF pushed = <<>> THEN pushed ELSE Front(pushed)
    /\ blocks' = Front(blocks)
    /\ exc' = (exc /\ ~ExitSuppresses)
    /\ cf_call' = NoCall

\* a try/except around a block catches the propagating exception
Catch ==
    /\ exc
    /\ exc' = FALSE
    /\ last' = Call("except", None, None, "none")
    /\ cf_call' = NoCall
    /\ UNCHANGED <<framework_stack, default_device_stack, ivy_dict, ivy_original_dict,
                   ivy_original_fn_dict, mod_dict, pushed, blocks>>

InitFw ==
    /\ framework_stack = <<>>
    /\ default_device_stack = <<>>
    /\ ivy_dict = IvyNamespace
    /\ ivy_original_dict = IvyNamespace
    /\ ivy_original_fn_dict = EmptyDict
    /\ mod_dict = ModuleNamespace
    /\ last = Call("import", None, None, "none")
    /\ cf_call = NoCall
    /\ pushed = <<>>
    /\ blocks = <<>>
    /\ exc = FALSE

(***************************************************************************)
(* DevMapper: one worker process per device, two queues per worker         *)
(***************************************************************************)
Devs   == <<"d0", "d1">>          \* self._devs
DevSet == Range(Devs)

\* ivy.default(x, default_val) on an optional argument
Given(v)   == [exists |-> TRUE, val |-> v]
Omitted    == [exists |-> FALSE, val |-> <<>>]
default(x, default_val) == IF x.exists THEN x.val ELSE default_val

\* the used_devs arguments a caller passes to map
UsedDevsArgs == {Omitted} \cup {Given(<<d>>) : d \in DevSet}
                \cup {Given(<<p[1], p[2]>>) : p \in {q \in DevSet \X DevSet : q[1] # q[2]}}

\* a work item ({k: v[ds]} of call c) and the sentinel of teardown
Item(c, ds) == [call |-> c, dev |-> ds]
Sentinel    == [call |-> 0, dev |-> None]

\* the value the worker of device d computes from a work item
Result(item, d) == [call |-> item.call, dev |-> item.dev, by |-> d]

Idle == [pc |-> "idle", call |-> 0, arg |-> Omitted, used |-> <<>>, i |-> 0,
         got |-> <<>>, outcome |-> "none", ret |-> <<>>]

ZeroCount == [d \in DevSet |-> 0]

InitMap ==
    /\ input_queues = [d \in DevSet |-> <<>>]
    /\ output_queues = [d \in DevSet |-> <<>>]
    /\ workers = [d \in DevSet |-> [pc |-> "get", item |-> Sentinel]]
    /\ coord = Idle
    /\ hist = [puts |-> ZeroCount, takes |-> ZeroCount, read |-> ZeroCount,
               put_out |-> ZeroCount, done |-> <<>>, timed_out |-> [d \in DevSet |-> FALSE]]

\* map, lines 999-1001: the call starts, used_devs defaults to all devices
MapStart(used_devs) ==
    /\ coord.pc = "idle"
    /\ coord.call < MaxCalls
    /\ coord' = [pc |-> "put", call |-> coord.call + 1, arg |-> used_devs,
                 used |-> default(used_devs, Devs),
                 i |-> 1, got |-> <<>>, outcome |-> "none", ret |-> <<>>]
    /\ hist' = [hist EXCEPT !.puts = ZeroCount, !.takes = ZeroCount, !.done = <<>>]
    /\ UNCHANGED <<input_queues, output_queues, workers>>

\* faulty variant: every put goes to all devices
PutTargetsAll(used, i) == DevSet

\* the devices whose input queue receives the i-th work item of a call
PutTargets(used, i) == {used[i]}

\* map, line 1002: one non-blocking put per used device
MapPut ==
    /\ coord.pc = "put"
    /\ input_queues' = [d \in DevSet |->
                          IF d \in PutTargets(coord.used, coord.i)
                          THEN Append(input_queues[d], Item(coord.call, d))
                          ELSE input_queues[d]]
    /\ hist' = [hist EXCEPT !.puts = [d \in DevSet |->
                          IF d \in PutTargets(coord.used, coord.i) THEN @[d] + 1 ELSE @[d]]]
    /\ coord' = IF coord.i = Len(coord.used)
                THEN [coord EXCEPT !.pc = "get", !.i = 1]
                ELSE [coord EXCEPT !.i = @ + 1]
    /\ UNCHANGED <<output_queues, workers>>

\* faulty variant: results are taken from whichever used device has one ready
GetSourcesAny(used, i) == Range(used)

\* the devices whose output queue the i-th get of a call may read
GetSources(used, i) == {used[i]}

\* map, line 1004: get on the output queue of the i-th used device returns;
\* after the last one ret_fn receives the collected list
MapGet ==
    /\ coord.pc = "get"
    /\ \E d \in GetSources(coord.used, coord.i) :
         /\ output_queues[d] # <<>>
         /\ output_queues' = [output_queues EXCEPT ![d] = Tail(@)]
         /\ hist' = [hist EXCEPT !.takes[d] = @ + 1]
         /\ LET got == Append(coord.got, Head(output_queues[d]))
            IN  coord' = IF coord.i = Len(coord.used)
                         THEN [coord EXCEPT !.pc = "idle", !.got = got, !.ret = got,
                                            !.outcome = "returned"]
                         ELSE [coord EXCEPT !.i = @ + 1, !.got = got]
    /\ UNCHANGED <<input_queues, workers>>

\* faulty variant: get without a timeout blocks for ever
GetNeverExpires(q) == FALSE

\* whether get(timeout=self._timeout) on queue q can expire: the timeout is a
\* number (ivy.default(timeout, ivy.queue_timeout())) and q stays empty
GetExpires(q) == q = <<>>

\* map, line 1004: the get expires, queue.Empty leaves map
MapTimeout ==
    /\ coord.pc = "get"
    /\ GetExpires(output_queues[coord.used[coord.i]])
    /\ coord' = [coord EXCEPT !.pc = "idle", !.outcome = "timeout"]
    /\ UNCHANGED <<input_queues, output_queues, workers, hist>>

\* the position of a worker after `except queue.Empty`
AfterEmpty == "get"

\* _worker_fn, lines 975-979: an item arrives; None ends the worker
WorkerGet(d) ==
    /\ workers[d].pc = "get"
    /\ input_queues[d] # <<>>
    /\ LET loaded_kwargs == Head(input_queues[d])
       IN  /\ input_queues' = [input_queues EXCEPT ![d] = Tail(@)]
           /\ IF loaded_kwargs = Sentinel
              THEN /\ workers' = [workers EXCEPT ![d] = [pc |-> "exited", item |-> Sentinel]]
                   /\ hist' = hist
              ELSE /\ workers' = [workers EXCEPT ![d] = [pc |-> "run", item |-> loaded_kwargs]]
                   /\ hist' = [hist EXCEPT !.read[d] = @ + 1]
    /\ UNCHANGED <<output_queues, coord>>

\* _worker_fn, lines 976-977: the get on the input queue expires
WorkerTimeout(d) ==
    /\ workers[d].pc = "get"
    /\ GetExpires(input_queues[d])
    /\ workers' = [workers EXCEPT ![d].pc = AfterEmpty]
    /\ hist' = [hist EXCEPT !.timed_out[d] = TRUE]
    /\ UNCHANGED <<input_queues, output_queues, coord>>

\* the results a worker puts on its output queue for one item
Produced(item, d) == <<Result(item, d)>>

\* _worker_fn, lines 983-984: fn returns, the result goes to the output queue
WorkerPut(d) ==
    /\ workers[d].pc = "run"
    /\ output_queues' = [output_queues EXCEPT ![d] = @ \o Produced(workers[d].item, d)]
    /\ workers' = [workers EXCEPT ![d] = [pc |-> "get", item |-> Sentinel]]
    /\ hist' = [hist EXCEPT !.put_out[d] = @ + Len(Produced(workers[d].item, d)),
                            !.done = Append(@, d)]
    /\ UNCHANGED <<input_queues, coord>>

\* _worker_fn, line 983: fn raises, nothing catches it, the process dies
WorkerDie(d) ==
    /\ workers[d].pc = "run"
    /\ workers' = [workers EXCEPT ![d].pc = "dead"]
    /\ UNCHANGED <<input_queues, output_queues, coord, hist>>

(***************************************************************************)
(* Teardown of the device mapper and of the device manager                 *)
(***************************************************************************)
MaxDels == 2

\* a dictionary key that is a device string, and one that is an int
DevKey(ds) == <<"str", ds>>
IndexKey(i) == <<"int", i>>

\* DevMapper.__init__, lines 953-955: the three dictionaries are keyed by ds
QueueKeys == {DevKey(d) : d \in DevSet}
QueueOf(key) == CHOOSE d \in DevSet : DevKey(d) = key

\* __del__, line 1023: the key of self._input_queues[i] for the i-th worker
\* (enumerate counts from 0) of device ds
DelQueueKey(i, ds) == IndexKey(i)

\* Process.is_alive(): started and neither returned, died nor terminated
is_alive(w) == w.pc \in {"get", "run"}

InitDel ==
    /\ closed = [d \in DevSet |-> [inq |-> FALSE, outq |-> FALSE]]
    /\ td = [attr |-> "unbuilt", calls |-> 0, op |-> "none", ran |-> FALSE,
             raised |-> "none",
             swallowed |-> "none", sent |-> {}, joined |-> {}, terminated |-> {}]

\* __del__, lines 1022-1024: the loop over the workers, from the i-th on;
\* acc = [inq, sent, joined, err]
RECURSIVE DelLoop(_, _)
DelLoop(i, acc) ==
    IF i >= Len(Devs) \/ acc.err # "none" THEN acc
    ELSE LET key == DelQueueKey(i, Devs[i + 1])
         IN  IF key \notin QueueKeys
             THEN [acc EXCEPT !.err = "KeyError"]
             ELSE LET d == QueueOf(key)
                  IN  IF closed[d].inq
                      THEN [acc EXCEPT !.err = "ValueError"]
                      ELSE DelLoop(i + 1,
                                   [acc EXCEPT !.inq[d] = Append(@, Sentinel),
                                               !.sent = @ \cup {d},
                                               !.joined = @ \cup {Devs[i + 1]}])

\* DevMapperMultiProc.__del__, lines 1019-1036, as one call: the try block
\* (loop, then the two closing loops), `except Exception: pass`, and the
\* finally block that terminates every worker still alive
DevMapperDel ==
    LET loop == DelLoop(0, [inq |-> input_queues, sent |-> {}, joined |-> {},
                            err |-> "none"])
        ok   == loop.err = "none"
    IN  [inq        |-> loop.inq,
         closed     |-> IF ok THEN [d \in DevSet |-> [inq |-> TRUE, outq |-> TRUE]]
                        ELSE closed,
         sent       |-> loop.sent,
         joined     |-> loop.joined,
         swallowed  |-> loop.err,
         terminated |-> {d \in DevSet : is_alive(workers[d])},
         workers    |-> [d \in DevSet |->
                           IF is_alive(workers[d])
                           THEN [workers[d] EXCEPT !.pc = "terminated"]
                           ELSE workers[d]]]

\* the mapper is torn down: dev_mapper.__del__() or its deletion
MapperDel ==
    /\ coord.pc = "idle"
    /\ td.calls < MaxDels
    /\ LET r == DevMapperDel
       IN  /\ input_queues' = r.inq
           /\ closed' = r.closed
           /\ workers' = r.workers
           /\ td' = [td EXCEPT !.calls = @ + 1, !.op = "DevMapperMultiProc.__del__",
                               !.ran = TRUE, !.raised = "none", !.swallowed = r.swallowed,
                               !.sent = r.sent, !.joined = r.joined,
                               !.terminated = r.terminated]
    /\ UNCHANGED <<output_queues, coord, hist>>

\* DevManager.__init__, line 1081: the manager keeps the mapper it is given
NewManager(dev_mapper) ==
    /\ td.attr = "unbuilt"
    /\ td' = [td EXCEPT !.attr = dev_mapper]
    /\ UNCHANGED <<mapvars, closed>>

\* DevManager.__del__, lines 1423-1426: dev_manager.__del__() or its deletion;
\* reading self._dev_mapper after `del self._dev_mapper` is an AttributeError
ManagerDel ==
    /\ coord.pc = "idle"
    /\ td.attr # "unbuilt"
    /\ td.calls < MaxDels
    /\ IF td.attr = "deleted"
       THEN /\ td' = [td EXCEPT !.calls = @ + 1, !.op = "DevManager.__del__",
                                !.ran = FALSE, !.raised = "AttributeError", !.swallowed = "none",
                                !.sent = {}, !.joined = {}, !.terminated = {}]
            /\ UNCHANGED <<input_queues, closed, workers>>
       ELSE IF td.attr # None
       THEN LET r == DevMapperDel
            IN  /\ input_queues' = r.inq
                /\ closed' = r.closed
                /\ workers' = r.workers
                /\ td' = [td EXCEPT !.attr = "deleted", !.calls = @ + 1,
                                    !.op = "DevManager.__del__", !.ran = TRUE,
                                    !.raised = "none", !.swallowed = r.swallowed,
                                    !.sent = r.sent, !.joined = r.joined,
                                    !.terminated = r.terminated]
       ELSE /\ td' = [td EXCEPT !.calls = @ + 1, !.op = "DevManager.__del__",
                                !.ran = FALSE, !.raised = "none", !.swallowed = "none",
                                !.sent = {}, !.joined = {}, !.terminated = {}]
            /\ UNCHANGED <<input_queues, closed, workers>>
    /\ UNCHANGED <<output_queues, coord, hist>>


(***************************************************************************)
(* Arrays distributed over devices, cloned and unified (numpy backend)     *)
(***************************************************************************)
MaxLen == 7

\* the values of array elements, and every array of one axis up to MaxLen
Elems == {0, 1}
Datas == UNION {[1..n -> Elems] : n \in 0..MaxLen}

\* an array: its elements along the axis, each divided by den
Array(data) == [data |-> data, den |-> 1]
NoArray == Array(<<>>)

\* lists of device strings the numpy backend accepts, and targets of unify
ArrDevs == <<cpu \o <<":", "0">>, cpu \o <<":", "1">>, cpu \o <<":", "2">>>>
DevLists == {SubSeq(ArrDevs, 1, k) : k \in 1..Len(ArrDevs)}
Targets == {cpu, ArrDevs[2], gpu \o <<":", "0">>}
Modes == {"concat", "sum", "mean", "max"}

\* Python's `sub in s` on strings
In(sub, s) == \E i \in 0..(Len(s) - Len(sub)) : SubSeq(s, i + 1, i + Len(sub)) = sub

\* Python's s[a:b] for 0 <= a, b
PySlice(s, a, b) == SubSeq(s, a + 1, IF b < Len(s) THEN b ELSE Len(s))

\* numpy _to_dev, lines 34-50: x itself, after the check of the device string
_to_dev(x, device) ==
    IF In(gpu, device) THEN [err |-> "Exception", val |-> NoArray]
    ELSE IF In(cpu, device) THEN [err |-> "none", val |-> x]
    ELSE [err |-> "Exception", val |-> NoArray]

\* stop_gradient: the same array without gradient information
stop_gradient(x) == x

\* the three kinds of num_or_size_splits
IntArg(n) == [kind |-> "int", n |-> n, sizes |-> <<>>]
ListArg(sizes) == [kind |-> "list", n |-> 0, sizes |-> sizes]
NoneArg == [kind |-> "None", n |-> 0, sizes |-> <<>>]

\* numpy.cumsum of a list
RECURSIVE cumsum(_)
cumsum(l) == IF l = <<>> THEN <<>>
             ELSE LET c == cumsum(Front(l))
                  IN  Append(c, (IF c = <<>> THEN 0 ELSE Last(c)) + Last(l))

\* numpy.split(x, sections, axis): equal sections for an int, which must
\* divide the length; for a list of indices the pieces between them
np_split(x, arg) ==
    LET L == Len(x.data)
    IN  IF arg.kind = "int"
        THEN IF arg.n = 0 THEN [err |-> "ZeroDivisionError", chunks |-> <<>>]
             ELSE IF L % arg.n # 0 THEN [err |-> "ValueError", chunks |-> <<>>]
             ELSE [err |-> "none",
                   chunks |-> [j \in 1..arg.n |->
                                 Array(PySlice(x.data, (j - 1) * (L \div arg.n),
                                               j * (L \div arg.n)))]]
        ELSE LET div_points == <<0>> \o arg.sizes \o <<L>>
             IN  [err |-> "none",
                  chunks |-> [j \in 1..(Len(div_points) - 1) |->
                                Array(PySlice(x.data, div_points[j], div_points[j + 1]))]]

\* split, lines 178-182: an int with a remainder becomes a list of sizes, the
\* int itself for each whole chunk and int(remainder * int) last; the float
\* product truncates to the remainder of the division or to one less (rnd)
SizesWithRemainder(L, n, rnd) == [i \in 1..(L \div n) |-> n] \o <<(L % n) - rnd>>

\* split, lines 171-186, on an array of one axis
split(x, num_or_size_splits, with_remainder, rnd) ==
    LET L  == Len(x.data)
        a1 == IF num_or_size_splits.kind = "None" THEN IntArg(L)
              ELSE IF num_or_size_splits.kind = "int" /\ with_remainder
                      /\ num_or_size_splits.n # 0
                      /\ L % num_or_size_splits.n # 0
              THEN ListArg(SizesWithRemainder(L, num_or_size_splits.n, rnd))
              ELSE num_or_size_splits
        a2 == IF a1.kind = "list" THEN ListArg(cumsum(Front(a1.sizes))) ELSE a1
    IN  np_split(x, a2)

\* zip(xs, ys)
zip(xs, ys) == [j \in 1..(IF Len(xs) < Len(ys) THEN Len(xs) ELSE Len(ys)) |->
                  <<xs[j], ys[j]>>]

\* a dict built from pairs <<value, device>> after to_dev of every value:
\* entries [dev, val] in insertion order, or the first error
RECURSIVE ToDevAll(_, _)
ToDevAll(pairs, acc) ==
    IF pairs = <<>> THEN [err |-> "none", item |-> acc]
    ELSE LET r == _to_dev(Head(pairs)[1], Head(pairs)[2])
         IN  IF r.err # "none" THEN [err |-> r.err, item |-> <<>>]
             ELSE ToDevAll(Tail(pairs),
                           Append(acc, [dev |-> Head(pairs)[2], val |-> r.val]))

\* dev_dist_array, lines 641-643, for a list of devices
dev_dist_array(x, devs, rnd) ==
    LET split_arg == IntArg(Len(devs))
        parts     == split(x, split_arg, TRUE, rnd)
    IN  IF parts.err # "none" THEN [err |-> parts.err, item |-> <<>>]
        ELSE ToDevAll(zip(parts.chunks, devs), <<>>)

\* faulty variant: only the first device receives a clone
CloneFirstOnly(x, devs) ==
    ToDevAll(<<<<x, Head(devs)>>>>, <<>>)

\* dev_clone_array, line 735
dev_clone_array(x, devs) ==
    LET r == ToDevAll([j \in 1..Len(devs) |-> <<x, devs[j]>>], <<>>)
    IN  IF r.err # "none" THEN r
        ELSE [err |-> "none",
              item |-> [j \in 1..Len(r.item) |->
                          [r.item[j] EXCEPT !.val = stop_gradient(@)]]]

\* xs.values(), each moved to dev: the list or the first error
values_to_dev(xs, dev) ==
    ToDevAll([j \in 1..Len(xs) |-> <<xs[j].val, dev>>], <<>>)

\* concat of a list of arrays along the axis
RECURSIVE concat(_)
concat(l) == IF l = <<>> THEN <<>> ELSE Head(l).data \o concat(Tail(l))

\* a + b on numpy arrays of one axis, with broadcasting of a length of 1
np_add(a, b) ==
    IF Len(a) = Len(b) THEN [err |-> "none", data |-> [i \in 1..Len(a) |-> a[i] + b[i]]]
    ELSE IF Len(a) = 1 THEN [err |-> "none", data |-> [i \in 1..Len(b) |-> a[1] + b[i]]]
    ELSE IF Len(b) = 1 THEN [err |-> "none", data |-> [i \in 1..Len(a) |-> a[i] + b[1]]]
    ELSE [err |-> "ValueError", data |-> <<>>]

\* Python's sum(l) of a non-empty list of arrays: 0 + l[0] + l[1] + ...
RECURSIVE PySum(_)
PySum(l) ==
    IF Len(l) = 1 THEN [err |-> "none", data |-> Head(l).data]
    ELSE LET s == PySum(Front(l))
         IN  IF s.err # "none" THEN s ELSE np_add(s.data, Last(l).data)

\* faulty variant: the values are concatenated last device first
ConcatUnifyReversed(xs, dev) ==
    LET l == values_to_dev(xs, dev)
    IN  IF l.err # "none" THEN [err |-> l.err, val |-> NoArray]
        ELSE [err |-> "none", val |-> Array(concat(Reverse([j \in 1..Len(l.item) |-> l.item[j].val])))]

\* _concat_unify_array, lines 794-795
_concat_unify_array(xs, dev) ==
    LET l == values_to_dev(xs, dev)
    IN  IF l.err # "none" THEN [err |-> l.err, val |-> NoArray]
        ELSE [err |-> "none", val |-> Array(concat([j \in 1..Len(l.item) |-> l.item[j].val]))]

\* _sum_unify_array, lines 799-800
_sum_unify_array(xs, dev) ==
    LET l == values_to_dev(xs, dev)
    IN  IF l.err # "none" THEN [err |-> l.err, val |-> NoArray]
        ELSE LET s == PySum([j \in 1..Len(l.item) |-> l.item[j].val])
             IN  IF s.err # "none" THEN [err |-> s.err, val |-> NoArray]
                 ELSE [err |-> "none", val |-> Array(s.data)]

\* faulty variant: the sum is returned undivided
MeanUnifyUndivided(xs, dev) == _sum_unify_array(xs, dev)

\* _mean_unify_array, lines 804-805: the sum divided by len(xs)
_mean_unify_array(xs, dev) ==
    LET s == _sum_unify_array(xs, dev)
    IN  IF s.err # "none" THEN s
        ELSE [err |-> "none", val |-> [s.val EXCEPT !.den = @ * Len(xs)]]

\* dev_unify_array, lines 823-825: the mode selects the function
dev_unify_array(xs, dev, mode) ==
    IF mode = "concat" THEN _concat_unify_array(xs, dev)
    ELSE IF mode = "sum" THEN _sum_unify_array(xs, dev)
    ELSE IF mode = "mean" THEN _mean_unify_array(xs, dev)
    ELSE [err |-> "KeyError", val |-> NoArray]

InitArr ==
    arr = [op |-> "none", from |-> "none", x |-> NoArray, x_after |-> NoArray,
           devs |-> <<>>, err |-> "none", item |-> <<>>, target |-> <<>>,
           mode |-> "none", out |-> NoArray]

\* a call of dev_dist_array(x, devs), the first call on arrays
DevDistArray(x, devs, rnd) ==
    /\ arr.op = "none"
    /\ LET r == dev_dist_array(x, devs, rnd)
       IN  arr' = [op |-> "dev_dist_array", from |-> "none", x |-> x, x_after |-> x,
                devs |-> devs, err |-> r.err, item |-> r.item, target |-> <<>>,
                mode |-> "none", out |-> NoArray]

\* a call of dev_clone_array(x, devs), the first call on arrays
DevCloneArray(x, devs) ==
    /\ arr.op = "none"
    /\ LET r == dev_clone_array(x, devs)
       IN  arr' = [op |-> "dev_clone_array", from |-> "none", x |-> x, x_after |-> x,
                devs |-> devs, err |-> r.err, item |-> r.item, target |-> <<>>,
                mode |-> "none", out |-> NoArray]

\* a call of dev_unify_array on the item the last call returned
DevUnifyArray(target, mode) ==
    /\ arr.op \in {"dev_dist_array", "dev_clone_array"}
    /\ arr.err = "none"
    /\ LET r == dev_unify_array(arr.item, target, mode)
       IN  arr' = [arr EXCEPT !.op = "dev_unify_array", !.from = arr.op,
                              !.target = target, !.mode = mode,
                              !.err = r.err, !.out = r.val]


(***************************************************************************)
(* Exact fractions for the float arithmetic of the device manager          *)
(***************************************************************************)
Abs(a) == IF a < 0 THEN -a ELSE a
Min(a, b) == IF a < b THEN a ELSE b
Max(a, b) == IF a < b THEN b ELSE a

RECURSIVE gcd(_, _)
gcd(a, b) == IF b = 0 THEN a ELSE gcd(b, a % b)

\* the fraction n/d in lowest terms with a positive denominator
Rat(n, d) ==
    LET g == gcd(Abs(n), Abs(d))
        s == IF d < 0 THEN -1 ELSE 1
    IN  [n |-> (s * n) \div g, d |-> (s * d) \div g]
FromInt(i) == [n |-> i, d |-> 1]

\* sums over the least common denominator, products after cancelling, so
\* that the intermediate values stay small
RAdd(a, b) == LET g == gcd(a.d, b.d)
              IN  Rat(a.n * (b.d \div g) + b.n * (a.d \div g), (a.d \div g) * b.d)
RNeg(a)    == [n |-> -a.n, d |-> a.d]
RSub(a, b) == RAdd(a, RNeg(b))
RMul(a, b) == LET x == Rat(a.n, b.d)
                  y == Rat(b.n, a.d)
              IN  [n |-> x.n * y.n, d |-> x.d * y.d]
RDiv(a, b) == RMul(a, Rat(b.d, b.n))
RLt(a, b)  == RSub(a, b).n < 0
RMin(a, b) == IF RLt(b, a) THEN b ELSE a
RMax(a, b) == IF RLt(a, b) THEN b ELSE a

\* math.floor(a)
RFloor(a) == a.n \div a.d

\* int(round(a)): Python rounds a half to the even neighbour
RRound(a) ==
    LET f    == RFloor(a)
        rest == 2 * (a.n - f * a.d)
    IN  IF rest < a.d THEN f
        ELSE IF rest > a.d THEN f + 1
        ELSE IF f % 2 = 0 THEN f ELSE f + 1

(***************************************************************************)
(* DevManager                                                              *)
(***************************************************************************)
MaxSteps == 5

\* the arguments the manager is built with
DimSize == 4
MinUnitDevTuneSteps == 2
MinSfTuneSteps == 2
MinDevDimSize == 0
SafetyFactor == Rat(11, 10)
StartingSplitFactor == FromInt(0)
MaxSplitFactorStepSize == Rat(5, 100)
MaxDevDimStepRatios == {Rat(1, 10), Rat(1, 2)}
DmDevLists == {<<"d0">>, <<"d0", "d1">>}

\* what dev_util and percent_used_mem_on_dev report in one tune step
UtilValues == {20, 80}
MemValues == {40}
Telemetry(devs) ==
    {[util |-> u, mem |-> [k \in Range(devs) |-> p]] :
        u \in [Range(devs) -> UtilValues], p \in MemValues}

\* a dictionary that is None, or empty after clear()
Unset == <<>>

Sum(f, keys) == LET RECURSIVE S(_)
                    S(i) == IF i = 0 THEN 0 ELSE S(i - 1) + f[keys[i]]
                IN  S(Len(keys))

\* sorted(d.items(), key=lambda item: item[1]): the keys by increasing value,
\* equal values in the order of the dictionary
RECURSIVE InsertBy(_, _, _)
InsertBy(s, k, f) ==
    IF s = <<>> THEN <<k>>
    ELSE IF f[k] < f[Last(s)] THEN Append(InsertBy(Front(s), k, f), Last(s))
    ELSE Append(s, k)

RECURSIVE SortedKeys(_, _)
SortedKeys(keys, f) ==
    IF keys = <<>> THEN <<>>
    ELSE InsertBy(SortedKeys(Front(keys), f), Last(keys), f)

\* the position of k in the list s, counted from 0
IndexOf(s, k) == (CHOOSE i \in 1..Len(s) : s[i] = k) - 1

\* faulty variant: the rounded split sizes are used as they are
RoundedSplitSizes(devs, ratios, dim_size) ==
    [k \in Range(devs) |-> RRound(RMul(ratios[k], FromInt(dim_size)))]

\* _compute_devs_da, lines 1155-1165
_compute_devs_da(devs, ratios, dim_size) ==
    LET split_sizes == [i \in 1..Len(devs) |-> RRound(RMul(ratios[devs[i]], FromInt(dim_size)))]
        combined    == Sum(split_sizes, [i \in 1..Len(devs) |-> i])
        excess_size == combined - dim_size
        fixed       == [i \in 1..Len(devs) |->
                          IF excess_size > 0 /\ i <= excess_size THEN split_sizes[i] - 1
                          ELSE IF excess_size < 0 /\ i <= -excess_size THEN split_sizes[i] + 1
                          ELSE split_sizes[i]]
    IN  [k \in Range(devs) |-> fixed[IndexOf(devs, k) + 1]]

\* history of a call: the tune steps it invoked, what it raised, whether the
\* manager was tuned and how many steps it had run when the call began, and
\* the oom argument it passed to the tune step
Called(op, ran, raised, was_tuned, before, oom) ==
    [op |-> op, ran |-> ran, raised |-> raised, was_tuned |-> was_tuned, before |-> before,
     oom |-> oom]

\* DevManager.__init__, lines 1079-1132
DevManagerOfSize(da_dim_size, dev_mapper, devs, ratio, tune_dev_alloc, tune_dev_splits, starting_split_factor) ==
    LET with_dev_mapping == dev_mapper # None
        tune_da  == IF ~with_dev_mapping THEN FALSE ELSE tune_dev_alloc
        num_devs == Len(devs)
        keys     == Range(devs)
        ratios   == [k \in keys |-> Rat(1, num_devs)]
    IN  [state |-> "built",
         dev_mapper |-> dev_mapper,
         devs |-> devs,
         num_devs |-> num_devs,
         dim_size |-> da_dim_size,
         max_dev_dim_step_size |-> Max(RRound(RMul(ratio, FromInt(da_dim_size))), 1),
         with_dev_mapping |-> with_dev_mapping,
         tune_da |-> tune_da,
         tune_ds |-> tune_dev_splits,
         tuned |-> (~tune_da \/ num_devs = 1) /\ ~tune_dev_splits,
         first_da_tune_step |-> TRUE,
         first_ds_tune_step |-> TRUE,
         da_tune_count |-> 0,
         unit_da_tune_count |-> 0,
         ds_tune_count |-> 0,
         tune_step |-> IF tune_da THEN "da_tune_step"
                       ELSE IF tune_dev_splits THEN "ds_tune_step" ELSE None,
         observed_configs |-> {},
         da_directions |-> Unset,
         da_directions_flipped |-> Unset,
         dev_da_ratios |-> ratios,
         percent_mem_inc_per_unit_da_dim |-> [k \in keys |-> FromInt(0)],
         percent_mem_inc_per_sf |-> [k \in keys |-> FromInt(0)],
         percent_util_inc_per_unit_da_dim |-> [k \in keys |-> FromInt(1)],
         delta_da_dim_sizes |-> [k \in keys |-> 0],
         delta_sfs |-> [k \in keys |-> FromInt(0)],
         dev_percent_mems |-> Unset,
         dev_utils |-> Unset,
         devs_da |-> IF with_dev_mapping THEN _compute_devs_da(devs, ratios, da_dim_size)
                     ELSE Unset,
         devs_ds |-> [k \in keys |-> starting_split_factor],
         split_factors |-> IF tune_dev_splits /\ ~with_dev_mapping
                           THEN [k \in keys |-> starting_split_factor] ELSE Unset,
         call |-> Called("__init__", <<>>, "none", FALSE, 0, FALSE)]

\* DevManager(dev_mapper, devs, DimSize, ...)
DevManagerInitFrom(dev_mapper, devs, ratio, tune_dev_alloc, tune_dev_splits, starting_split_factor) ==
    DevManagerOfSize(DimSize, dev_mapper, devs, ratio, tune_dev_alloc, tune_dev_splits,
                     starting_split_factor)

\* DevManager(...) with the default starting_split_factor
DevManagerInit(dev_mapper, devs, ratio, tune_dev_alloc, tune_dev_splits) ==
    DevManagerInitFrom(dev_mapper, devs, ratio, tune_dev_alloc, tune_dev_splits,
                       StartingSplitFactor)

\* _shift_da_splits, lines 1136-1153, from the i-th pair on
RECURSIVE _shift_da_splits(_, _, _, _)
_shift_da_splits(i, m, ordered_dev_util_keys, deltas) ==
    IF i >= m.num_devs \div 2 THEN m
    ELSE LET less_util_dev == ordered_dev_util_keys[i + 1]
             more_util_dev == ordered_dev_util_keys[Len(ordered_dev_util_keys) - i]
             delta == Min(Max(Min(deltas[less_util_dev],
                                  m.devs_da[more_util_dev] - MinDevDimSize), 1),
                          m.max_dev_dim_step_size)
             m1 == [m  EXCEPT !.devs_da[less_util_dev] = @ + delta,
                              !.delta_da_dim_sizes[less_util_dev] = delta]
             m2 == [m1 EXCEPT !.devs_da[more_util_dev] = @ - delta,
                              !.delta_da_dim_sizes[more_util_dev] = -delta]
         IN  _shift_da_splits(i + 1, m2, ordered_dev_util_keys, deltas)

\* _compute_dev_da_ratios, lines 1167-1168
_compute_dev_da_ratios(m) ==
    [m EXCEPT !.dev_da_ratios = [k \in DOMAIN m.devs_da |-> Rat(m.devs_da[k], m.dim_size)]]

\* the tuple repeated_config_check builds, lines 1369-1374
Config(m) ==
    (IF m.tune_da THEN [i \in 1..m.num_devs |-> FromInt(m.devs_da[m.devs[i]])] ELSE <<>>)
    \o (IF m.tune_ds THEN [i \in 1..m.num_devs |-> m.devs_ds[m.devs[i]]] ELSE <<>>)

\* repeated_config_check, lines 1366-1381
repeated_config_check(m) ==
    IF Config(m) \in m.observed_configs THEN [ret |-> TRUE, m |-> m]
    ELSE [ret |-> FALSE, m |-> [m EXCEPT !.observed_configs = @ \cup {Config(m)}]]

\* da_tune_step and ds_tune_step, lines 1171 and 1291: a tuned manager returns
ReturnsAtOnce(m) == m.tuned

\* faulty variant: a device allocation step leaves the next step as it is
AfterDaStays(m) == m.tune_step

\* the step that follows a device allocation step, lines 1200-1201, 1253-1254
AfterDa(m) == IF m.tune_ds THEN "ds_tune_step" ELSE m.tune_step

\* the step that follows a device splitting step, lines 1314-1315, 1340-1341
AfterDs(m) == IF m.tune_da THEN "da_tune_step" ELSE m.tune_step

\* faulty variant: device allocation tuning is never found complete
DaNeverComplete(repeated, m) == FALSE

\* da_tune_step, lines 1260-1261: `a and b and not c or d` is `(a and b and
\* not c) or d`
DaComplete(repeated, m) ==
    (repeated /\ m.unit_da_tune_count >= MinUnitDevTuneSteps /\ ~m.tune_ds)
    \/ m.ds_tune_count >= MinSfTuneSteps

\* ds_tune_step, lines 1347-1348, for the value of repeated_config_check when
\* it is reached
DsComplete(da_can_terminate, repeated, m) ==
    (da_can_terminate /\ repeated /\ m.ds_tune_count >= MinSfTuneSteps /\ ~m.tune_da)
    \/ m.unit_da_tune_count >= MinUnitDevTuneSteps

\* da_tune_step, lines 1208-1218: halve the step when every direction flipped
DaDirections(m, new_dev_utils_keys) ==
    IF m.max_dev_dim_step_size > 1
    THEN LET da_directions == [k \in Range(m.devs) |->
                                 IF IndexOf(new_dev_utils_keys, k) < m.num_devs \div 2
                                 THEN 1 ELSE -1]
             m1 == IF m.da_directions = Unset
                   THEN [m EXCEPT !.da_directions = da_directions,
                                  !.da_directions_flipped = [k \in Range(m.devs) |-> FALSE]]
                   ELSE [m EXCEPT !.da_directions_flipped =
                                      [k \in Range(m.devs) |->
                                         da_directions[k] * m.da_directions[k] < 0]]
         IN  IF \A k \in Range(m.devs) : m1.da_directions_flipped[k]
             THEN [m1 EXCEPT !.da_directions = Unset,
                             !.max_dev_dim_step_size =
                                 Max(RRound(Rat(m.max_dev_dim_step_size, 2)), 1)]
             ELSE m1
    ELSE m

\* da_tune_step, lines 1170-1278
da_tune_step(m, t, oom) ==
    IF ReturnsAtOnce(m) THEN m
    ELSE
    LET keys == Range(m.devs)
        new_dev_utils_keys == SortedKeys(m.devs, t.util)
        highest_util == t.util[Last(new_dev_utils_keys)]
        new_dev_percent_mems == IF oom THEN [k \in keys |-> 100] ELSE t.mem
    IN  IF m.first_da_tune_step
        THEN LET m1 == _shift_da_splits(0, m, new_dev_utils_keys, [k \in keys |-> 1])
                 m2 == [m1 EXCEPT !.dev_percent_mems = new_dev_percent_mems,
                                  !.dev_utils = t.util,
                                  !.da_tune_count = @ + 1,
                                  !.first_da_tune_step = FALSE]
                 m3 == _compute_dev_da_ratios(m2)
             IN  [m3 EXCEPT !.tune_step = AfterDa(m3)]
        ELSE LET m1 == DaDirections(m, new_dev_utils_keys)
                 mem_inc == [k \in keys |->
                               IF m1.delta_da_dim_sizes[k] # 0
                               THEN RDiv(RAdd(RMul(FromInt(m1.da_tune_count - 1),
                                                   m1.percent_mem_inc_per_unit_da_dim[k]),
                                              Rat(new_dev_percent_mems[k] - m1.dev_percent_mems[k],
                                                  m1.delta_da_dim_sizes[k])),
                                         FromInt(m1.da_tune_count))
                               ELSE m1.percent_mem_inc_per_unit_da_dim[k]]
                 util_inc == [k \in keys |->
                               IF m1.delta_da_dim_sizes[k] # 0
                               THEN RMax(RDiv(RAdd(RMul(FromInt(m1.da_tune_count - 1),
                                                        m1.percent_util_inc_per_unit_da_dim[k]),
                                                   Rat(t.util[k] - m1.dev_utils[k],
                                                       m1.delta_da_dim_sizes[k])),
                                              FromInt(m1.da_tune_count)),
                                         Rat(1, 10))
                               ELSE m1.percent_util_inc_per_unit_da_dim[k]]
                 raw_deltas == [k \in keys |->
                                  RRound(RDiv(FromInt(highest_util - t.util[k]), util_inc[k]))]
                 permissable_steps ==
                     [k \in keys |->
                        Min(RFloor(RDiv(RDiv(FromInt(100 - new_dev_percent_mems[k]),
                                             RMax(mem_inc[k], Rat(1, 10))),
                                        SafetyFactor)),
                            m1.dim_size)]
                 deltas == [k \in keys |-> Min(raw_deltas[k], permissable_steps[k])]
                 m2 == [m1 EXCEPT !.percent_mem_inc_per_unit_da_dim = mem_inc,
                                  !.percent_util_inc_per_unit_da_dim = util_inc]
                 m3 == _shift_da_splits(0, m2, new_dev_utils_keys, deltas)
                 m4 == _compute_dev_da_ratios(
                           [m3 EXCEPT !.dev_utils = t.util,
                                      !.dev_percent_mems = new_dev_percent_mems])
                 m5 == [m4 EXCEPT !.da_tune_count = @ + 1, !.tune_step = AfterDa(m4)]
             IN  IF m5.max_dev_dim_step_size = 1
                 THEN LET r  == repeated_config_check(m5)
                          m6 == IF DaComplete(r.ret, r.m)
                                THEN [r.m EXCEPT !.observed_configs = {},
                                                 !.percent_mem_inc_per_unit_da_dim = Unset,
                                                 !.delta_da_dim_sizes = Unset,
                                                 !.dev_percent_mems = Unset,
                                                 !.tuned = TRUE]
                                ELSE r.m
                      IN  [m6 EXCEPT !.unit_da_tune_count = @ + 1]
                 ELSE m5

\* faulty variant: the split factor is not capped
UncappedSf(sf) == sf

\* _shift_ds, lines 1285 and 1288: min(..., 1)
CappedSf(sf) == RMin(sf, FromInt(1))

\* _shift_ds, lines 1282-1288, over the devices from the i-th on
RECURSIVE _shift_ds(_, _, _)
_shift_ds(i, m, deltas) ==
    IF i > Len(m.devs) THEN m
    ELSE LET ds == m.devs[i]
             clipped_delta == RMin(deltas[ds], MaxSplitFactorStepSize)
             new_ds == CappedSf(RAdd(m.devs_ds[ds], clipped_delta))
             m1 == [m EXCEPT !.devs_ds[ds] = new_ds, !.delta_sfs[ds] = clipped_delta]
             m2 == IF ~m.with_dev_mapping
                   THEN [m1 EXCEPT !.split_factors =
                            Update(@, [k \in {ds} |->
                                         CappedSf(RAdd(new_ds, clipped_delta))])]
                   ELSE m1
         IN  _shift_ds(i + 1, m2, deltas)

\* ds_tune_step, lines 1290-1362
ds_tune_step(m, t, oom) ==
    IF ReturnsAtOnce(m) THEN m
    ELSE
    LET keys == Range(m.devs)
        new_dev_percent_mems == IF oom THEN [k \in keys |-> 100] ELSE t.mem
    IN  IF m.first_ds_tune_step
        THEN LET m1 == _shift_ds(1, m, [k \in keys |-> Rat(1, 100)])
                 m2 == [m1 EXCEPT !.dev_percent_mems = new_dev_percent_mems,
                                  !.ds_tune_count = @ + 1,
                                  !.first_ds_tune_step = FALSE]
             IN  [m2 EXCEPT !.tune_step = AfterDs(m2)]
        ELSE LET mem_inc == [k \in keys |->
                               IF m.delta_sfs[k] # FromInt(0)
                               THEN RDiv(RAdd(RMul(FromInt(m.ds_tune_count - 1),
                                                   m.percent_mem_inc_per_sf[k]),
                                              RDiv(FromInt(new_dev_percent_mems[k]
                                                           - m.dev_percent_mems[k]),
                                                   m.delta_sfs[k])),
                                         FromInt(m.ds_tune_count))
                               ELSE m.percent_mem_inc_per_sf[k]]
                 deltas == [k \in keys |->
                              RMin(RDiv(RMax(RSub(RDiv(FromInt(100), SafetyFactor),
                                                  FromInt(new_dev_percent_mems[k])),
                                             FromInt(0)),
                                        RMax(mem_inc[k], FromInt(1))),
                                   MaxSplitFactorStepSize)]
                 m1 == _shift_ds(1, [m EXCEPT !.percent_mem_inc_per_sf = mem_inc], deltas)
                 m2 == [m1 EXCEPT !.dev_percent_mems = new_dev_percent_mems,
                                  !.ds_tune_count = @ + 1]
                 m3 == [m2 EXCEPT !.tune_step = AfterDs(m2)]
                 da_can_terminate == ~m3.tune_da \/ m3.max_dev_dim_step_size = 1
                 r  == IF da_can_terminate THEN repeated_config_check(m3)
                       ELSE [ret |-> FALSE, m |-> m3]
             IN  IF DsComplete(da_can_terminate, r.ret, r.m)
                 THEN [r.m EXCEPT !.observed_configs = {},
                                  !.percent_mem_inc_per_sf = Unset,
                                  !.dev_percent_mems = Unset,
                                  !.tuned = TRUE]
                 ELSE r.m

\* self._tune_step(oom): the bound method the attribute holds
RunTuneStep(m, t, oom) ==
    IF m.tune_step = "da_tune_step" THEN da_tune_step(m, t, oom)
    ELSE ds_tune_step(m, t, oom)

\* the tune steps a manager has run past their first line
StepsRun(m) == m.da_tune_count + m.ds_tune_count

InitDm == dm = [state |-> "unbuilt", devs |-> <<>>]

\* DevManager(dev_mapper, devs, DimSize, ...)
NewDevManager(dev_mapper, devs, ratio, tune_dev_alloc, tune_dev_splits) ==
    /\ dm.state = "unbuilt"
    /\ dm' = DevManagerInit(dev_mapper, devs, ratio, tune_dev_alloc, tune_dev_splits)

\* dev_manager.tune_step(oom), the property of lines 1439-1441 called, on a
\* manager that has run fewer than bound steps
TuneStepWithin(bound, t, oom) ==
    /\ dm.state = "built"
    /\ dm.tuned \/ StepsRun(dm) < bound
    /\ dm' = IF dm.tune_step = None
             THEN [dm EXCEPT !.call = Called("tune_step", <<>>, "TypeError",
                                             dm.tuned, StepsRun(dm), oom)]
             ELSE [RunTuneStep(dm, t, oom) EXCEPT
                             !.call = Called("tune_step", <<dm.tune_step>>, "none",
                                             dm.tuned, StepsRun(dm), oom)]

TuneStep(t, oom) == TuneStepWithin(MaxSteps, t, oom)

\* faulty variant: map tunes whether the manager is tuned or not
MapNeverReturnsEarly(m) == FALSE

\* map, lines 1418-1419
MapReturnsEarly(m) == m.tuned

\* DevManager.map, lines 1385-1421: the mapped call returns or raises
\* (queue.Empty); after a return one tune step runs unless the manager is tuned
DmMapWithin(bound, returns, t) ==
    /\ dm.state = "built"
    /\ dm.tuned \/ StepsRun(dm) < bound
    /\ dm' = IF ~dm.with_dev_mapping
             THEN [dm EXCEPT !.call = Called("map", <<>>, "AttributeError",
                                             dm.tuned, StepsRun(dm), FALSE)]
             ELSE IF ~returns
             THEN [dm EXCEPT !.call = Called("map", <<>>, "Empty",
                                             dm.tuned, StepsRun(dm), FALSE)]
             ELSE IF MapReturnsEarly(dm)
             THEN [dm EXCEPT !.call = Called("map", <<>>, "none",
                                             dm.tuned, StepsRun(dm), FALSE)]
             ELSE [RunTuneStep(dm, t, FALSE) EXCEPT
                             !.call = Called("map", <<dm.tune_step>>, "none",
                                             dm.tuned, StepsRun(dm), FALSE)]

DmMap(returns, t) == DmMapWithin(MaxSteps, returns, t)

(***************************************************************************)
(* Device strings and the device handles of the backends                   *)
(***************************************************************************)
MaxIndex == 11

\* str.upper and str.lower on the characters of device strings
Upper(c) == CASE c = "c" -> "C" [] c = "g" -> "G" [] c = "t" -> "T"
              [] c = "p" -> "P" [] c = "u" -> "U" [] c = "d" -> "D"
              [] c = "a" -> "A" [] c = "x" -> "X" [] OTHER -> c
Lower(c) == CASE c = "C" -> "c" [] c = "G" -> "g" [] c = "T" -> "t"
              [] c = "P" -> "p" [] c = "U" -> "u" [] c = "D" -> "d"
              [] c = "A" -> "a" [] c = "X" -> "x" [] OTHER -> c
upper(s) == [i \in 1..Len(s) |-> Upper(s[i])]
lower(s) == [i \in 1..Len(s) |-> Lower(s[i])]

\* str(i) for an int i >= 0, and int(s) for a string of digits
DigitOf == <<"0", "1", "2", "3", "4", "5", "6", "7", "8", "9">>
RECURSIVE str(_)
str(i) == IF i < 10 THEN <<DigitOf[i + 1]>> ELSE Append(str(i \div 10), DigitOf[(i % 10) + 1])
RECURSIVE int(_)
int(s) == IF s = <<>> THEN 0
          ELSE 10 * int(Front(s)) + (CHOOSE v \in 0..9 : DigitOf[v + 1] = Last(s))

\* s.startswith(p)
StartsWith(s, p) == Len(s) >= Len(p) /\ SubSeq(s, 1, Len(p)) = p

\* s.replace(old, new)
RECURSIVE replace(_, _, _)
replace(s, old, new) ==
    IF s = <<>> THEN <<>>
    ELSE IF StartsWith(s, old)
    THEN new \o replace(SubSeq(s, Len(old) + 1, Len(s)), old, new)
    ELSE <<Head(s)>> \o replace(Tail(s), old, new)

\* s.split(':')
RECURSIVE SplitColon(_)
SplitColon(s) ==
    IF \A i \in 1..Len(s) : s[i] # ":" THEN <<s>>
    ELSE LET i == CHOOSE j \in 1..Len(s) : s[j] = ":" /\ \A h \in 1..(j - 1) : s[h] # ":"
         IN  <<SubSeq(s, 1, i - 1)>> \o SplitColon(SubSeq(s, i + 1, Len(s)))

\* ':'.join(parts)
RECURSIVE JoinColon(_)
JoinColon(parts) ==
    IF Len(parts) = 0 THEN <<>>
    ELSE IF Len(parts) = 1 THEN parts[1]
    ELSE parts[1] \o <<":">> \o JoinColon(Tail(parts))

\* a device handle: a Python string, or a torch.device with its type and
\* index (-1 when the index is None)
StrHandle(s) == [kind |-> "str", s |-> s, index |-> -1]
TorchHandle(type, index) == [kind |-> "torch.device", s |-> type, index |-> index]
isinstance_str(h) == h.kind = "str"

\* the outcome of a conversion: the value returned, or the error raised
Returned(h) == [val |-> h, raised |-> "none"]
Raised(err) == [val |-> StrHandle(<<>>), raised |-> err]

cuda == <<"c", "u", "d", "a">>

\* torch.device(s) for the device types the library knows here: "cpu" and
\* "cuda", with an optional index
torch_device(s) ==
    LET parts == SplitColon(s)
    IN  IF parts[1] \notin {cpu, cuda} \/ Len(parts) > 2 THEN Raised("RuntimeError")
        ELSE IF Len(parts) = 1 THEN Returned(TorchHandle(parts[1], -1))
        ELSE IF ~isnumeric(parts[2]) THEN Raised("RuntimeError")
        ELSE Returned(TorchHandle(parts[1], int(parts[2])))

\* numpy/device.py, lines 17-18
numpy_dev_to_str(dev) == Returned(StrHandle(cpu))
numpy_dev_from_str(dev) == Returned(StrHandle(cpu))

\* torch/device.py, lines 42-50
torch_dev_to_str(device) ==
    IF isinstance_str(device) THEN Returned(device)
    ELSE IF device.s = cpu THEN Returned(StrHandle(device.s))
    ELSE Returned(StrHandle(replace(device.s, cuda, gpu) \o <<":">>
                            \o (IF device.index # -1 THEN str(device.index) ELSE <<"0">>)))

\* torch/device.py, lines 53-56
torch_dev_from_str(device) ==
    IF ~isinstance_str(device) THEN Returned(device)
    ELSE torch_device(replace(device.s, gpu, cuda))

\* dev[1:].split(':')[-2:]
LastTwoAfterFirst(s) ==
    LET parts == SplitColon(IF s = <<>> THEN s ELSE Tail(s))
    IN  IF Len(parts) <= 2 THEN parts ELSE SubSeq(parts, Len(parts) - 1, Len(parts))

\* tensorflow/device.py, lines 45-55
tensorflow_dev_to_str(dev) ==
    IF isinstance_str(dev) /\ ~In(<<"/">>, dev.s) THEN Returned(dev)
    ELSE LET dev_in_split == LastTwoAfterFirst(dev.s)
         IN  IF Len(dev_in_split) = 1 THEN Returned(StrHandle(dev_in_split[1]))
             ELSE LET dev_type == lower(dev_in_split[1])
                      dev_idx  == dev_in_split[2]
                  IN  IF dev_type = cpu THEN Returned(StrHandle(dev_type))
                      ELSE Returned(StrHandle(JoinColon(<<dev_type, dev_idx>>)))

\* tensorflow/device.py, lines 58-64
tensorflow_dev_from_str(dev) ==
    IF isinstance_str(dev) /\ In(<<"/">>, dev.s) THEN Returned(dev)
    ELSE LET ret == <<"/">> \o upper(dev.s)
         IN  IF ~isnumeric(<<Last(ret)>>) THEN Returned(StrHandle(ret \o <<":", "0">>))
             ELSE Returned(StrHandle(ret))

Backends == {"numpy", "torch", "tensorflow"}

\* ivy.dev_to_str and ivy.dev_from_str: the functions of the current backend
dev_to_str(backend, dev) ==
    IF backend = "numpy" THEN numpy_dev_to_str(dev)
    ELSE IF backend = "torch" THEN torch_dev_to_str(dev)
    ELSE tensorflow_dev_to_str(dev)
dev_from_str(backend, dev) ==
    IF backend = "numpy" THEN numpy_dev_from_str(dev)
    ELSE IF backend = "torch" THEN torch_dev_from_str(dev)
    ELSE tensorflow_dev_from_str(dev)

\* the device strings of the grammar cpu | gpu:<N> | tpu:<N>
ValidDevs == {cpu} \cup {t \o <<":">> \o str(i) : t \in {gpu, tpu}, i \in 0..MaxIndex}

NoConv == [backend |-> "none", d |-> <<>>, handle |-> StrHandle(<<>>), from_raised |-> "none",
           back |-> StrHandle(<<>>), to_raised |-> "none", done |-> FALSE]

InitConv == conv = NoConv

\* handle = ivy.dev_from_str(d) under a backend
DevFromStr(backend, d) ==
    /\ conv.backend = "none"
    /\ LET r == dev_from_str(backend, StrHandle(d))
       IN  conv' = [NoConv EXCEPT !.backend = backend, !.d = d, !.handle = r.val,
                                  !.from_raised = r.raised]

\* ivy.dev_to_str(handle) on the handle the conversion returned
DevToStr ==
    /\ conv.backend # "none" /\ conv.from_raised = "none" /\ ~conv.done
    /\ LET r == dev_to_str(conv.backend, conv.handle)
       IN  conv' = [conv EXCEPT !.back = r.val, !.to_raised = r.raised, !.done = TRUE]

(***************************************************************************)
(* The default device stack                                                *)
(***************************************************************************)
\* the device strings the calls are made with
DevInputs == {cpu, gpu \o <<":", "0">>, tpu \o <<":", "1", "0">>, cpu \o <<":", "0">>,
              gpu, gpu \o <<":">>, gpu \o <<"x", "1">>}

\* gpu_is_available() of a backend: numpy/device.py, line 31, has no GPU;
\* for the other backends the machine decides
GpuAvailable(backend) == IF backend = "numpy" THEN {FALSE} ELSE BOOLEAN

\* default_device, lines 308-320: given tells whether dev was passed
default_device(dds, backend, gpu_is_available, given, dev) ==
    IF given
    THEN LET s == dev_to_str(backend, dev)
         IN  IF s.raised # "none" THEN Raised(s.raised)
             ELSE IF ~_assert_dev_correct_formatting(s.val.s) THEN Raised("AssertionError")
             ELSE Returned(dev)
    ELSE LET ret == IF dds = <<>>
                    THEN (IF gpu_is_available THEN gpu \o <<":", "0">> ELSE cpu)
                    ELSE Last(dds)
         IN  dev_from_str(backend, StrHandle(ret))

\* the record of a call: its arguments, the stack it found, what it returned
\* or raised, and the DefaultDevice blocks that are open after it
DdCall(op, dev, backend, given, before, ret, raised, open) ==
    [op |-> op, dev |-> dev, backend |-> backend, given |-> given, before |-> before,
     ret |-> ret, raised |-> raised, blocks |-> open, exc |-> FALSE]

InitDd == dd = DdCall("none", <<>>, "none", FALSE, <<>>, StrHandle(<<>>), "none", <<>>)

\* ivy.set_default_device(dev), called outside the DefaultDevice blocks
SetDefaultDevice(dev) ==
    /\ dd.blocks = <<>> /\ ~dd.exc
    /\ Len(default_device_stack) < MaxDepth
    /\ LET r == set_default_device(default_device_stack, dev)
       IN  /\ default_device_stack' = r.stack
           /\ dd' = DdCall("set_default_device", dev, "none", TRUE, default_device_stack,
                           StrHandle(<<>>), IF r.raised THEN "AssertionError" ELSE "none",
                           dd.blocks)

\* ivy.unset_default_device(), called outside the DefaultDevice blocks
UnsetDefaultDevice ==
    /\ dd.blocks = <<>> /\ ~dd.exc
    /\ default_device_stack' = unset_default_device(default_device_stack)
    /\ dd' = DdCall("unset_default_device", <<>>, "none", FALSE, default_device_stack,
                    StrHandle(<<>>), "none", dd.blocks)

\* ivy.default_device(dev) and ivy.default_device() under a backend
DefaultDevice(backend, gpu_is_available, given, dev) ==
    /\ ~dd.exc
    /\ LET r == default_device(default_device_stack, backend, gpu_is_available, given,
                               StrHandle(dev))
       IN  dd' = DdCall("default_device", dev, backend, given, default_device_stack,
                        r.val, r.raised, dd.blocks)
    /\ UNCHANGED default_device_stack

\* DefaultDevice.__enter__ of `with ivy.DefaultDevice(dev):`, lines 44-46; the
\* block is open when set_default_device has returned
EnterDevice(dev) ==
    /\ ~dd.exc
    /\ Len(default_device_stack) < MaxDepth
    /\ LET r == set_default_device(default_device_stack, dev)
       IN  /\ default_device_stack' = r.stack
           /\ dd' = DdCall("__enter__", dev, "none", TRUE, default_device_stack,
                           StrHandle(<<>>), IF r.raised THEN "AssertionError" ELSE "none",
                           IF r.raised THEN dd.blocks
                           ELSE Append(dd.blocks, [dev |-> dev, before |-> default_device_stack]))

\* the body of the innermost open DefaultDevice block raises
RaiseInDevice ==
    /\ dd.blocks # <<>> /\ ~dd.exc
    /\ dd' = [DdCall("raise", <<>>, "none", FALSE, default_device_stack, StrHandle(<<>>),
                     "Exception", dd.blocks) EXCEPT !.exc = TRUE]
    /\ UNCHANGED default_device_stack

\* whether the with statement suppresses the exception of the body: __exit__
\* returns self (line 50), an object without __bool__ or __len__, which is true
ExitDeviceSuppresses == TRUE

\* DefaultDevice.__exit__ of the innermost open block, lines 48-50, at the
\* normal end of the body or on an exception
ExitDevice ==
    /\ dd.blocks # <<>>
    /\ default_device_stack' = unset_default_device(default_device_stack)
    /\ dd' = [DdCall("__exit__", Last(dd.blocks).dev, "none", FALSE, default_device_stack,
                     StrHandle(<<>>), IF dd.exc THEN "Exception" ELSE "none",
                     Front(dd.blocks))
                 EXCEPT !.exc = dd.exc /\ ~ExitDeviceSuppresses]

(***************************************************************************)
(* split_func_call on arrays of two axes; data holds the rows              *)
(***************************************************************************)
MaxDim == 3

\* the rows of the transposed array
Transpose(rows) ==
    IF rows = <<>> THEN <<>>
    ELSE [j \in 1..Len(rows[1]) |-> [i \in 1..Len(rows) |-> rows[i][j]]]

\* inp.shape[axis]
Shape(inp, axis) == IF axis = 0 THEN Len(inp.data) ELSE Len(inp.data[1])

\* ivy.split(inp, chunk_sizes, axis, True), line 457: the chunks along axis 1
\* are the chunks of the columns
SplitAlong(inp, chunk_sizes, axis) ==
    IF axis = 0 THEN split(inp, ListArg(chunk_sizes), TRUE, 0).chunks
    ELSE LET chunks == split(Array(Transpose(inp.data)), ListArg(chunk_sizes), TRUE, 0).chunks
         IN  [j \in 1..Len(chunks) |-> Array(Transpose(chunks[j].data))]

\* ivy.concat(xs, axis), line 483
ConcatAlong(xs, axis) ==
    IF axis = 0 THEN Array(concat(xs))
    ELSE Array(Transpose(concat([j \in 1..Len(xs) |-> Array(Transpose(xs[j].data))])))

\* the arrays of test_split_func_call for a shape: x0 counts 0, 1, 2, ... or
\* down from 9, x1 counts 2, 4, 6, ... or down from 18
Counting(rows, cols, first, step) ==
    Array([i \in 1..rows |-> [j \in 1..cols |-> first + step * ((i - 1) * cols + (j - 1))]])
X0s(rows, cols) == {Counting(rows, cols, 0, 1), Counting(rows, cols, 9, -1)}
X1s(rows, cols) == {Counting(rows, cols, 2, 2), Counting(rows, cols, 18, -2)}

\* t0 * t1 and t0 - t1 on two arrays of one shape, element by element
Multiply(t0, t1) ==
    Array([i \in 1..Len(t0.data) |->
             [j \in 1..Len(t0.data[i]) |-> t0.data[i][j] * t1.data[i][j]]])
Subtract(t0, t1) ==
    Array([i \in 1..Len(t0.data) |->
             [j \in 1..Len(t0.data[i]) |-> t0.data[i][j] - t1.data[i][j]]])

\* func of test_split_func_call: t0 * t1, t0 - t1, t1 - t0
func(t0, t1) == <<Multiply(t0, t1), Subtract(t0, t1), Subtract(t1, t0)>>

\* faulty variant: the smaller last chunk is left out of the list of sizes
ChunkSizesWithoutRest(dim_size, chunk_size) ==
    [i \in 1..(dim_size \div chunk_size) |-> chunk_size]

\* split_func_call, lines 450-455
ChunkSizes(dim_size, chunk_size) ==
    LET num_chunks_floored == dim_size \div chunk_size
        chunk_sizes == [i \in 1..num_chunks_floored |-> chunk_size]
    IN  IF dim_size % chunk_size # 0
        THEN Append(chunk_sizes, dim_size - chunk_size * num_chunks_floored)
        ELSE chunk_sizes

\* split_func_call(func, inputs, 'concat', chunk_size=chunk_size,
\* input_axes=input_axes), lines 435-486, for two native arrays and an int
\* axis: what it returns and the arguments of the calls of func
split_func_call(inputs, chunk_size, input_axes) ==
    LET dim_size == Shape(inputs[1], input_axes)
    IN  IF chunk_size >= dim_size
        THEN [ret |-> func(inputs[1], inputs[2]), calls |-> <<inputs>>]
        ELSE LET chunk_sizes  == ChunkSizes(dim_size, chunk_size)
                 inputs_split == [i \in 1..Len(inputs) |->
                                    SplitAlong(inputs[i], chunk_sizes, input_axes)]
                 zipped == [j \in 1..Min(Len(inputs_split[1]), Len(inputs_split[2])) |->
                              <<inputs_split[1][j], inputs_split[2][j]>>]
                 rets == [j \in 1..Len(zipped) |->
                            LET ret == func(zipped[j][1], zipped[j][2])
                            IN  [i \in 1..Len(ret) |-> ret[i]]]
                 num_outputs == Len(rets[1])
                 output_axes == [i \in 1..num_outputs |-> input_axes]
             IN  [ret |-> [i \in 1..num_outputs |->
                             ConcatAlong([j \in 1..Len(rets) |-> rets[j][i]], output_axes[i])],
                  calls |-> zipped]

NoSfc == [op |-> "none", inputs |-> <<>>, chunk_size |-> 0, input_axes |-> 0,
          ret |-> <<>>, calls |-> <<>>]

InitSfc == sfc = NoSfc

\* ivy.split_func_call(func, [in0, in1], 'concat', chunk_size=chunk_size,
\* input_axes=axis)
SplitFuncCall(in0, in1, chunk_size, axis) ==
    /\ sfc.op = "none"
    /\ LET r == split_func_call(<<in0, in1>>, chunk_size, axis)
       IN  sfc' = [op |-> "split_func_call", inputs |-> <<in0, in1>>,
                chunk_size |-> chunk_size, input_axes |-> axis,
                ret |-> r.ret, calls |-> r.calls]

(***************************************************************************)
(* Multi-device items: distribution by a mapping, shape and indexing       *)
(***************************************************************************)
MaxItemLen == 6
MaxChunk == 3

\* the array of L elements 0, 1, ..., L - 1
Iota(L) == Array([i \in 1..L |-> i - 1])

\* a dict device -> chunk size as its entries in insertion order, and every
\* such dict of positive sizes over the first k devices
Entry(dev, size) == [dev |-> dev, size |-> size]
Mappings ==
    UNION {{[j \in 1..k |-> Entry(ArrDevs[j], sz[j])] : sz \in [1..k -> 1..MaxChunk]} :
              k \in 1..Len(ArrDevs)}
dict_keys(d) == [j \in 1..Len(d) |-> d[j].dev]
dict_values(d) == [j \in 1..Len(d) |-> d[j].size]

\* dev_dist_array, lines 641-643, for a dict of split sizes: the values are
\* the split argument, zip walks the keys
dev_dist_array_dict(x, devs) ==
    LET split_arg == ListArg(dict_values(devs))
        parts     == split(x, split_arg, TRUE, 0)
    IN  IF parts.err # "none" THEN [err |-> parts.err, item |-> <<>>]
        ELSE ToDevAll(zip(parts.chunks, dict_keys(devs)), <<>>)

\* what the shape property gives: None, a tuple, or an error
ShapeNone == [is_none |-> TRUE, shape |-> <<>>, raised |-> "none"]
ShapeOf(shape) == [is_none |-> FALSE, shape |-> shape, raised |-> "none"]
ShapeRaised(err) == [is_none |-> FALSE, shape |-> <<>>, raised |-> err]

\* list(x.shape) of an array of one axis
shape(x) == <<Len(x.data)>>

\* MultiDevItem.shape, lines 509-518, on a dict whose values are arrays
MultiDevItem_shape(data, axis) ==
    LET shapes == [j \in 1..Len(data) |-> shape(data[j].val)]
    IN  IF shapes = <<>> THEN ShapeNone
        ELSE IF \E j \in 2..Len(shapes) : shapes[j] # shapes[1]
        THEN ShapeRaised("AssertionError")
        ELSE ShapeOf([shapes[1] EXCEPT ![axis + 1] = @ * Len(data)])

\* Python's s[start:stop] on a sequence: a negative index counts from the
\* end, and both indices are clipped to the length
ClipIndex(i, n) == IF i < 0 THEN Max(i + n, 0) ELSE Min(i, n)
getitem(s, start, stop) ==
    LET a == ClipIndex(start, Len(s))
        b == ClipIndex(stop, Len(s))
    IN  IF a < b THEN SubSeq(s, a + 1, b) ELSE <<>>

\* MultiDevItem._slice, lines 525-540, from the j-th entry of the dict on
RECURSIVE SliceLoop(_, _, _, _, _, _)
SliceLoop(j, data, start, stop, stacked_dim_size, ret_dict) ==
    IF j > Len(data) THEN ret_dict
    ELSE LET sub_item  == data[j].val
             rel_start == start - stacked_dim_size
             rel_stop  == stop - stacked_dim_size
             stacked   == stacked_dim_size + shape(sub_item)[1]
         IN  IF start < stacked
             THEN IF stop < stacked
                  THEN Append(ret_dict,
                              [dev |-> data[j].dev,
                               val |-> [sub_item EXCEPT
                                          !.data = getitem(@, rel_start, rel_stop)]])
                  ELSE SliceLoop(j + 1, data, start, stop, stacked,
                                 Append(ret_dict,
                                        [dev |-> data[j].dev,
                                         val |-> [sub_item EXCEPT
                                                    !.data = getitem(@, rel_start, Len(@))]]))
             ELSE SliceLoop(j + 1, data, start, stop, stacked, ret_dict)

_slice(data, start, stop) == SliceLoop(1, data, start, stop, 0, <<>>)

\* the two kinds of query: an int, and slice(start, stop)
IntQuery(i) == [kind |-> "int", start |-> i, stop |-> i + 1]
SliceQuery(a, b) == [kind |-> "slice", start |-> a, stop |-> b]
NoQuery == [kind |-> "none", start |-> 0, stop |-> 0]

\* MultiDevItem.__getitem__, lines 542-548
MultiDevItem_getitem(data, query) ==
    IF query.kind = "int" THEN _slice(data, query.start, query.start + 1)
    ELSE _slice(data, query.start, query.stop)

\* the length of the item along the axis, and the queries within its bounds
TotalLen(data) == Len(concat([j \in 1..Len(data) |-> data[j].val]))
Queries(n) == {IntQuery(i) : i \in 0..(n - 1)}
              \cup {SliceQuery(q[1], q[2]) : q \in {p \in (0..n) \X (0..n) : p[1] < p[2]}}

NoItem == [op |-> "none", kind |-> "none", x |-> NoArray, devs |-> <<>>, sizes |-> <<>>,
           err |-> "none", item |-> <<>>, asked |-> "none", query |-> NoQuery,
           shape |-> ShapeNone, ret |-> <<>>]

InitItem == mdi = NoItem

\* dev_dist_array(x, devs) with a dict of split sizes: a DevDistItem
DistByMapping(x, devs) ==
    /\ mdi.op = "none"
    /\ LET r == dev_dist_array_dict(x, devs)
       IN  mdi' = [NoItem EXCEPT !.op = "dev_dist_array", !.kind = "DevDistItem", !.x = x,
                                 !.devs = dict_keys(devs), !.sizes = dict_values(devs),
                                 !.err = r.err, !.item = r.item]

\* dev_clone_array(x, devs): a DevClonedItem
CloneToDevs(x, devs) ==
    /\ mdi.op = "none"
    /\ LET r == dev_clone_array(x, devs)
       IN  mdi' = [NoItem EXCEPT !.op = "dev_clone_array", !.kind = "DevClonedItem", !.x = x,
                                 !.devs = devs, !.err = r.err, !.item = r.item]

\* item.shape, read once from the item the last call returned
ReadShape ==
    /\ mdi.op # "none" /\ mdi.err = "none" /\ mdi.asked = "none"
    /\ mdi' = [mdi EXCEPT !.asked = "shape", !.shape = MultiDevItem_shape(mdi.item, 0)]

\* item[query], asked once of the item the last call returned
GetItem(query) ==
    /\ mdi.op # "none" /\ mdi.err = "none" /\ mdi.asked = "none"
    /\ mdi' = [mdi EXCEPT !.asked = "getitem", !.query = query,
                          !.ret = MultiDevItem_getitem(mdi.item, query)]

(***************************************************************************)
(* Managers that tune the split factors only                               *)
(***************************************************************************)
\* the starting_split_factor arguments, and the memory the devices report
StartingSplitFactors == {FromInt(0), Rat(97, 100)}
DsMemValues == {40, 95}
DsTelemetry(devs) ==
    {[util |-> [k \in Range(devs) |-> 20], mem |-> [k \in Range(devs) |-> p]] :
        p \in DsMemValues}

\* DevManager(dev_mapper, devs, tune_dev_alloc=False,
\*            starting_split_factor=starting_split_factor)
NewDsManager(dev_mapper, devs, starting_split_factor) ==
    /\ dm.state = "unbuilt"
    /\ dm' = DevManagerInitFrom(dev_mapper, devs, Rat(1, 10), FALSE, TRUE,
                                starting_split_factor)

(***************************************************************************)
(* Managers that tune the device allocation only                           *)
(***************************************************************************)
MaxDaSteps == 4

\* the da_dim_size and devs arguments
DaDimSizes == {5, 8}
DaDevLists == {<<"d0", "d1">>, <<"d0", "d1", "d2">>}

\* DevManager(dev_mapper, devs, da_dim_size, max_dev_dim_step_ratio=ratio,
\*            tune_dev_splits=False)
NewDaManager(devs, da_dim_size, ratio) ==
    /\ dm.state = "unbuilt"
    /\ dm' = DevManagerOfSize(da_dim_size, "mapper", devs, ratio, TRUE, FALSE,
                              StartingSplitFactor)

\* dev_manager.tune_step(oom) and dev_manager.map(...) on such a manager
DaTuneStep(t) == TuneStepWithin(MaxDaSteps, t, FALSE)
DaMap(t) == DmMapWithin(MaxDaSteps, TRUE, t)

(***************************************************************************)
(* Two simulated devices: the utilization a device reports grows with the  *)
(* units allocated to it                                                   *)
(***************************************************************************)
MaxTune == 8

\* percent of utilization per allocated unit, and the readings of the first
\* tune step, taken before any unit has moved
SimGains == {10, 25}
SimFirst == {[k \in {"d0", "d1"} |-> IF k = d THEN 80 ELSE 20] : d \in {"d0", "d1"}}

\* what dev_util and percent_used_mem_on_dev report to a tune step of m
SimTelemetry(m, s) ==
    [util |-> IF m.first_da_tune_step THEN s.first
              ELSE [k \in Range(m.devs) |->
                      50 + s.gain * (m.devs_da[k] - m.dim_size \div m.num_devs)],
     mem  |-> [k \in Range(m.devs) |-> 40]]

\* no simulated devices
NoSim == [first |-> <<>>, gain |-> 0]

InitSim == sim = NoSim

\* DevManager(dev_mapper, ['d0', 'd1'], DimSize, tune_dev_splits=False) on
\* simulated devices
NewSim(ratio, first, gain) ==
    /\ NewDevManager("mapper", <<"d0", "d1">>, ratio, TRUE, FALSE)
    /\ sim' = [first |-> first, gain |-> gain]

\* dev_manager.tune_step() on the simulated devices
SimTuneStep ==
    /\ sim # NoSim
    /\ TuneStepWithin(MaxTune, SimTelemetry(dm, sim), FALSE)
    /\ UNCHANGED sim

\* dev_manager.map(...) on the simulated devices
SimMap(returns) ==
    /\ sim # NoSim
    /\ DmMapWithin(MaxTune, returns, SimTelemetry(dm, sim))
    /\ UNCHANGED sim




(***************************************************************************)
(* Specifications                                                          *)
(***************************************************************************)
Init == InitFw /\ InitMap /\ InitDel /\ InitArr /\ InitDm /\ InitSim
        /\ InitDd /\ InitConv /\ InitSfc /\ InitItem

\* the framework handler driven by valid calls and ContextManager blocks
NextFw ==
    \/ \E m \in Modules : SetFrameworkModule(m)
    \/ \E n \in KnownNames : SetFrameworkStr(n)
    \/ UnsetFramework
    \/ \E m \in Modules : Enter(m)
    \/ RaiseInBlock
    \/ Exit
    \/ Catch

SpecFw == Init /\ [][NextFw /\ UNCHANGED NotFw]_vars

\* the same, with set_framework also given names that are no backend
NextFwErr ==
    \/ \E m \in Modules : SetFrameworkModule(m)
    \/ \E n \in KnownNames : SetFrameworkStr(n)
    \/ \E n \in UnknownNames : SetFrameworkUnknown(n)
    \/ UnsetFramework

SpecFwErr == Init /\ [][NextFwErr /\ UNCHANGED NotFw]_vars

\* current_framework called on every stack that pushes and pops produce
NextCf ==
    \/ \E m \in Modules : SetFrameworkModule(m)
    \/ UnsetFramework
    \/ \E args \in ArgLists, kwargs \in KwargLists : CurrentFramework(args, kwargs)

SpecCf == Init /\ [][NextCf /\ UNCHANGED NotFw]_vars

\* the device mapper: coordinator and workers interleave
MapStep == MapPut \/ MapGet \/ MapTimeout

NextMap ==
    \/ \E u \in UsedDevsArgs : MapStart(u)
    \/ MapPut
    \/ MapGet
    \/ MapTimeout
    \/ \E d \in DevSet : WorkerGet(d)
    \/ \E d \in DevSet : WorkerTimeout(d)
    \/ \E d \in DevSet : WorkerPut(d)
    \/ \E d \in DevSet : WorkerDie(d)

SpecMap == Init /\ [][NextMap /\ UNCHANGED NotMap]_vars

\* the thread inside map runs: a get returns or expires
SpecMapLive == SpecMap /\ WF_vars(MapStep /\ UNCHANGED NotMap)

\* the device mapper in use and torn down, by itself or through a manager
NextDel ==
    \/ NextMap /\ UNCHANGED delvars
    \/ MapperDel
    \/ \E m \in {"mapper", None} : NewManager(m)
    \/ ManagerDel

SpecDel == Init /\ [][NextDel /\ UNCHANGED NotDel]_vars

\* arrays of every length and content, distributed or cloned, then unified
NextArr ==
    \/ \E x \in Datas, devs \in DevLists, rnd \in {0, 1} : DevDistArray(Array(x), devs, rnd)
    \/ \E x \in Datas, devs \in DevLists : DevCloneArray(Array(x), devs)
    \/ \E target \in Targets, mode \in Modes : DevUnifyArray(target, mode)

SpecArr == Init /\ [][NextArr /\ UNCHANGED NotArr]_vars

\* a device manager built, then driven by map and tune_step calls
NextDm ==
    \/ \E dev_mapper \in {"mapper", None}, devs \in DmDevLists, ratio \in MaxDevDimStepRatios,
          tune_dev_alloc \in BOOLEAN, tune_dev_splits \in BOOLEAN :
            NewDevManager(dev_mapper, devs, ratio, tune_dev_alloc, tune_dev_splits)
    \/ \E t \in Telemetry(dm.devs), oom \in BOOLEAN : TuneStep(t, oom)
    \/ \E returns \in BOOLEAN, t \in Telemetry(dm.devs) : DmMap(returns, t)

SpecDm == Init /\ [][NextDm /\ UNCHANGED NotDm]_vars

\* a device manager that tunes the allocation of two simulated devices
NextSim ==
    \/ \E ratio \in MaxDevDimStepRatios, first \in SimFirst, gain \in SimGains :
            NewSim(ratio, first, gain)
    \/ SimTuneStep
    \/ \E returns \in BOOLEAN : SimMap(returns)

SpecSim == Init /\ [][NextSim /\ UNCHANGED NotSim]_vars

\* SimTuneStep can run a tune step, and a step in which it has run one
SimCanTune == sim # NoSim /\ ~dm.tuned /\ StepsRun(dm) < MaxTune
SimTuneStepRan ==
    /\ sim # NoSim /\ ~dm.tuned
    /\ dm'.call.op = "tune_step" /\ StepsRun(dm') = StepsRun(dm) + 1

\* tune_step() is called again and again while the manager is not tuned:
\* weak fairness of the tune steps of SimTuneStep, with ENABLED written out
SpecSimLive == SpecSim /\ ([]<>(~SimCanTune) \/ []<><<SimTuneStepRan>>_vars)

\* a device manager that tunes the device allocation of two or three devices
NextDa ==
    \/ \E devs \in DaDevLists, da_dim_size \in DaDimSizes, ratio \in MaxDevDimStepRatios :
            NewDaManager(devs, da_dim_size, ratio)
    \/ \E t \in Telemetry(dm.devs) : DaTuneStep(t)
    \/ \E t \in Telemetry(dm.devs) : DaMap(t)

SpecDa == Init /\ [][NextDa /\ UNCHANGED NotDm]_vars

\* a multi-device item built by one call, then asked one query
NextItem ==
    \/ \E L \in 0..MaxItemLen, devs \in Mappings : DistByMapping(Iota(L), devs)
    \/ \E L \in 0..MaxItemLen, devs \in DevLists : CloneToDevs(Iota(L), devs)
    \/ ReadShape
    \/ \E query \in Queries(TotalLen(mdi.item)) : GetItem(query)

SpecItem == Init /\ [][NextItem /\ UNCHANGED NotItem]_vars

\* a device manager that tunes the split factors, driven by tune_step calls
NextDs ==
    \/ \E dev_mapper \in {"mapper", None}, devs \in DmDevLists,
          starting_split_factor \in StartingSplitFactors :
            NewDsManager(dev_mapper, devs, starting_split_factor)
    \/ \E t \in DsTelemetry(dm.devs), oom \in BOOLEAN : TuneStep(t, oom)

SpecDs == Init /\ [][NextDs /\ UNCHANGED NotDm]_vars

\* a device string converted to the handle of a backend and back
NextConv ==
    \/ \E backend \in Backends, d \in ValidDevs : DevFromStr(backend, d)
    \/ DevToStr

SpecConv == Init /\ [][NextConv /\ UNCHANGED NotConv]_vars

\* calls on the default device stack, outside and inside DefaultDevice blocks
NextDd ==
    \/ \E dev \in DevInputs : SetDefaultDevice(dev)
    \/ UnsetDefaultDevice
    \/ \E backend \in Backends, given \in BOOLEAN, dev \in DevInputs :
          \E gpu_is_available \in GpuAvailable(backend) :
            DefaultDevice(backend, gpu_is_available, given, IF given THEN dev ELSE <<>>)
    \/ \E dev \in DevInputs : EnterDevice(dev)
    \/ RaiseInDevice
    \/ ExitDevice

SpecDd == Init /\ [][NextDd /\ UNCHANGED NotDd]_vars

\* split_func_call on two arrays of one shape
NextSfc ==
    \E rows \in 1..MaxDim, cols \in 1..MaxDim, chunk_size \in 1..(MaxDim + 1), axis \in {0, 1} :
      \E in0 \in X0s(rows, cols), in1 \in X1s(rows, cols) :
        SplitFuncCall(in0, in1, chunk_size, axis)

SpecSfc == Init /\ [][NextSfc /\ UNCHANGED NotSfc]_vars

Spec == SpecFw

(***************************************************************************)
(* Properties of the framework stack                                       *)
(***************************************************************************)
\* set_framework never fails on a module or on a known backend name
NoKeyError == last.raised # "KeyError"

\* a pop returns the module pushed last and not yet popped, None on an empty stack
PopReturnsLastPushed ==
    last'.op \in {"unset_framework", "__exit__"} =>
        last'.ret = IF pushed = <<>> THEN None ELSE Last(pushed)

\* C1: starting from an empty stack, after any sequence of set_framework
\* (module or backend name) and unset_framework calls the framework stack
\* holds exactly the modules pushed and not yet popped, oldest first (its
\* length is pushes minus effective pops, a push by name keeps the earlier
\* entries in order), and every unset_framework returns the module pushed
\* last, or None on an empty stack, which it leaves empty.
C1_StackLIFO == [](framework_stack = pushed) /\ [][PopReturnsLastPushed]_vars

\* a push by name has rebuilt a stack of two different modules below the new top
C1_Witness ==
    /\ last.op = "set_framework_str"
    /\ Len(framework_stack) = 3
    /\ framework_stack[1] # framework_stack[2]

\* C2: whenever the stack is non-empty (after every set_framework and after
\* every unset_framework that leaves a module), each public name the top
\* module defines is bound in ivy.__dict__ to the top module's value.
C2_BoundToTop ==
    framework_stack # <<>> =>
        \A k \in DOMAIN ivy_original_dict \cap DOMAIN mod_dict[Last(framework_stack)] :
            /\ k \in DOMAIN ivy_dict
            /\ Unwrapped(ivy_dict[k]) = mod_dict[Last(framework_stack)][k]

\* numpy, then mxnet on top of it, one pop: reduce_sum is numpy's again
C2_Witness ==
    /\ last.op = "unset_framework"
    /\ last.ret = "mxnet"
    /\ framework_stack = <<"numpy">>
    /\ ivy_dict["reduce_sum"] = [name |-> "reduce_sum", owner |-> "numpy", wrapped |-> TRUE]

\* C3: whenever the stack is empty again the public namespace equals the
\* snapshot taken at the first push: same names, same values.
C3_NamespaceRestored == framework_stack = <<>> => ivy_dict = ivy_original_dict

\* C5: the default device stack has one entry per numpy module on the
\* framework stack.
C5_DefaultDeviceCoupled ==
    Len(default_device_stack) = Count(framework_stack, "numpy")

\* C6: a call changes the length of the framework stack by at most one, and
\* a set_framework that raises on its backend name leaves the stack as it was.
C6_OneElementPerCall ==
    [][/\ Len(framework_stack') - Len(framework_stack) \in {-1, 0, 1}
       /\ last'.raised = "KeyError" => framework_stack' = framework_stack]_vars

\* C7: leaving a ContextManager block, normally or by an exception, pops the
\* module the block pushed and leaves the framework stack as it was before
\* the block; a propagating exception keeps propagating.
C7_BlockRestoresStack ==
    [][Len(blocks') < Len(blocks) =>
          /\ framework_stack' = Last(blocks).before
          /\ last'.ret = Last(blocks).module
          /\ exc' = exc]_vars

\* an inner block of two nested ones has been left by an exception
C7_Witness ==
    /\ last.op = "__exit__"
    /\ last.raised = "Exception"
    /\ exc
    /\ Len(blocks) = 1
    /\ Len(framework_stack) = 2

(***************************************************************************)
(* Properties of current_framework                                         *)
(***************************************************************************)
\* the classes of the objects inside a list of argument values, in order
RECURSIVE Flatten(_)
Flatten(xs) ==
    IF xs = <<>> THEN <<>>
    ELSE (IF Head(xs).kind = "obj" THEN <<Head(xs).cls>> ELSE Flatten(Head(xs).items))
         \o Flatten(Tail(xs))

KnownClasses(xs) == SelectSeq(Flatten(xs), LAMBDA c : c \in DOMAIN _array_types)

\* C4: with a non-empty stack current_framework returns the top whatever
\* the arguments; with an empty stack it returns the backend of the first
\* value (args, then kwargs values, through lists, tuples and dicts) of a
\* known array class, and raises an error carrying the arguments if none.
C4_Dispatch ==
    last.op = "current_framework" =>
        IF framework_stack # <<>>
        THEN last.ret = Last(framework_stack) /\ last.raised = "none"
        ELSE LET known == KnownClasses(cf_call.args \o cf_call.kwargs)
             IN  IF known = <<>>
                 THEN last.raised = "ValueError" /\ cf_call.msg = <<cf_call.args, cf_call.kwargs>>
                 ELSE last.ret = _array_types[Head(known)] /\ last.raised = "none"

\* empty stack, a list without arrays first, the array found in kwargs
C4_Witness ==
    /\ last.op = "current_framework"
    /\ framework_stack = <<>>
    /\ cf_call.args = <<Box("list", <<Obj("builtins")>>)>>
    /\ cf_call.kwargs = <<Obj("torch")>>
    /\ last.ret = "torch"

(***************************************************************************)
(* Properties of the device mapper                                         *)
(***************************************************************************)
\* the devices a map call uses
UsedSet == Range(IF coord.arg.exists THEN coord.arg.val ELSE Devs)

\* C8: a map call that returns hands ret_fn one result per used device, the
\* i-th produced by the worker of the i-th used device.
C8_DeviceOrder ==
    coord.outcome = "returned" =>
        /\ Len(coord.ret) = Len(coord.used)
        /\ \A i \in 1..Len(coord.used) : coord.ret[i].by = coord.used[i]

\* both devices used, and the worker of the second finished first
C8_Witness ==
    /\ coord.outcome = "returned"
    /\ Len(coord.used) = 2
    /\ hist.done = <<coord.used[2], coord.used[1]>>

\* C9: once its puts are done a map call has put exactly one item on the
\* input queue of every used device and none on any other; a call that
\* returns has taken exactly one result from every used device and none
\* from any other; a worker has pushed one result per item it read, the
\* item it is still working on (or died on) excepted.
C9_OnePerDevice ==
    /\ \A d \in DevSet : hist.puts[d] <= 1 /\ hist.takes[d] <= hist.puts[d]
    /\ (coord.pc = "get" \/ coord.outcome # "none") =>
          \A d \in DevSet : hist.puts[d] = IF d \in UsedSet THEN 1 ELSE 0
    /\ coord.outcome = "returned" =>
          \A d \in DevSet : hist.takes[d] = IF d \in UsedSet THEN 1 ELSE 0
    /\ \A d \in DevSet :
          hist.put_out[d] = hist.read[d] - (IF workers[d].pc \in {"run", "dead"} THEN 1 ELSE 0)

\* a call on one device only has returned
C9_Witness ==
    /\ coord.outcome = "returned"
    /\ coord.arg.exists
    /\ Len(coord.used) = 1
    /\ \E d \in DevSet : hist.puts[d] = 0 /\ hist.takes[d] = 0

\* a worker leaves its loop only on the sentinel
ExitOnlyOnSentinel ==
    \A d \in DevSet :
        (workers'[d].pc = "exited" /\ workers[d].pc # "exited") =>
            (input_queues[d] # <<>> /\ Head(input_queues[d]) = Sentinel)

\* the step in which a worker's get first expires leaves the worker waiting
StillWaitingAfterEmpty ==
    \A d \in DevSet :
        (hist'.timed_out[d] /\ ~hist.timed_out[d]) => workers'[d].pc = "get"

\* C10: every map call ends; when the worker of the device being waited for
\* is dead and its output queue empty the call ends by the timeout error;
\* a worker whose get on an empty input queue expires stays in its loop.
C10_MapEnds ==
    /\ (coord.pc # "idle") ~> (coord.pc = "idle")
    /\ \A d \in DevSet :
          (coord.pc = "get" /\ coord.used[coord.i] = d /\ workers[d].pc = "dead"
             /\ output_queues[d] = <<>>) ~> (coord.outcome = "timeout")
    /\ [][ExitOnlyOnSentinel]_vars
    /\ [][StillWaitingAfterEmpty]_vars

\* a call ended by the timeout with a dead worker, while another worker has
\* seen its own get expire and still waits
C10_Witness ==
    /\ coord.outcome = "timeout"
    /\ \E d \in DevSet : workers[d].pc = "dead"
    /\ \E d \in DevSet : hist.timed_out[d] /\ workers[d].pc = "get"

(***************************************************************************)
(* Properties of teardown                                                  *)
(***************************************************************************)
\* C11: DevMapperMultiProc.__del__ puts the sentinel None on the input queue
\* of every worker, joins every worker, and closes every input queue and
\* every output queue.
C11_TeardownReleases ==
    td.op = "DevMapperMultiProc.__del__" =>
        /\ td.sent = DevSet
        /\ td.joined = DevSet
        /\ \A d \in DevSet : closed[d].inq /\ closed[d].outq

\* a teardown call: the count of calls grows
DelStep == td'.calls = td.calls + 1

\* every worker alive when the mapper's teardown starts has been sent terminate
\* when it returns
TerminatesTheLiving ==
    DelStep /\ td'.ran => \A d \in DevSet : is_alive(workers[d]) => d \in td'.terminated

\* C12: teardown returns with every worker still alive sent terminate, and
\* no teardown call raises, the second one (on the mapper or on a manager
\* that owns one) included.
C12_TeardownSafe == [][TerminatesTheLiving]_vars /\ [](td.raised = "none")

(***************************************************************************)
(* Properties of distribution, cloning and unification                     *)
(***************************************************************************)
\* the state follows a failing or returning dev_dist_array call
AfterDist == arr.op = "dev_dist_array"

\* the state follows dev_unify_array in `mode` onto a device numpy accepts
Unified(mode) ==
    /\ arr.op = "dev_unify_array"
    /\ arr.mode = mode
    /\ In(cpu, arr.target)

ArrLen == Len(arr.x.data)
NumDevs == Len(arr.devs)

\* C13: when the length L of x is divisible by the number k of devices,
\* dev_dist_array returns k chunks of L/k elements, the j-th on the j-th
\* device holding the j-th run of L/k elements of x, and the concat unify of
\* them onto a target has the elements of x in the order of x.
C13_ConcatInverse ==
    ArrLen % (IF NumDevs = 0 THEN 1 ELSE NumDevs) = 0 =>
      /\ AfterDist =>
           /\ arr.err = "none"
           /\ Len(arr.item) = NumDevs
           /\ \A j \in 1..NumDevs :
                /\ arr.item[j].dev = arr.devs[j]
                /\ Len(arr.item[j].val.data) = ArrLen \div NumDevs
                /\ \A i \in 1..(ArrLen \div NumDevs) :
                     arr.item[j].val.data[i] = arr.x.data[(j - 1) * (ArrLen \div NumDevs) + i]
      /\ Unified("concat") /\ arr.from = "dev_dist_array" =>
           arr.err = "none" /\ arr.out = arr.x

\* six elements of both values went to three devices and came back
C13_Witness ==
    /\ Unified("concat")
    /\ arr.from = "dev_dist_array"
    /\ ArrLen = 6 /\ NumDevs = 3
    /\ arr.x.data[1] # arr.x.data[2]
    /\ arr.err = "none"

\* the size of the j-th of k chunks of L elements, as equal as possible
EvenSize(L, k, j) == (L \div k) + (IF j <= L % k THEN 1 ELSE 0)

\* C14: when L is not divisible by the number k of devices and L >= k,
\* dev_dist_array returns exactly k chunks, the earliest L mod k of them one
\* element longer than the others (7 elements on 3 devices: 3, 2, 2), and
\* their concat unify has all L elements of x in the order of x.
C14_EvenChunks ==
    NumDevs > 0 /\ ArrLen % (IF NumDevs = 0 THEN 1 ELSE NumDevs) # 0 /\ ArrLen >= NumDevs =>
      /\ AfterDist =>
           /\ arr.err = "none"
           /\ Len(arr.item) = NumDevs
           /\ \A j \in 1..Len(arr.item) :
                Len(arr.item[j].val.data) = EvenSize(ArrLen, NumDevs, j)
      /\ Unified("concat") /\ arr.from = "dev_dist_array" =>
           arr.err = "none" /\ arr.out = arr.x

\* C15: dev_dist_array over k devices returns an entry for each of the k
\* devices, none of them empty, when L >= k, and raises when L < k.
C15_EveryDeviceServed ==
    AfterDist =>
      IF ArrLen >= NumDevs
      THEN /\ arr.err = "none"
           /\ [j \in 1..Len(arr.item) |-> arr.item[j].dev] = arr.devs
           /\ \A j \in 1..Len(arr.item) : arr.item[j].val.data # <<>>
      ELSE arr.err # "none"

RECURSIVE Offset(_, _)
Offset(item, j) == IF j = 1 THEN 0 ELSE Offset(item, j - 1) + Len(item[j - 1].val.data)

\* the sum over the entries of their i-th elements
RECURSIVE SumAt(_, _, _)
SumAt(item, i, j) == IF j = 0 THEN 0 ELSE SumAt(item, i, j - 1) + item[j].val.data[i]

SameShapes == \A j \in 1..Len(arr.item) : Len(arr.item[j].val.data) = Len(arr.item[1].val.data)

\* C17: dev_unify_array onto a target returns, in 'concat' mode, the values
\* of the mapping one after the other in the mapping's order (as many
\* elements as the values have together); in 'sum' mode, for values of one
\* shape, their elementwise sum; in 'mean' mode that sum divided by the
\* number of devices of the mapping; and it raises for any other mode.
C17_UnifyModes ==
    /\ Unified("concat") =>
         /\ arr.err = "none"
         /\ Len(arr.out.data) = Offset(arr.item, Len(arr.item) + 1)
         /\ arr.out.den = 1
         /\ \A j \in 1..Len(arr.item) : \A i \in 1..Len(arr.item[j].val.data) :
              arr.out.data[Offset(arr.item, j) + i] = arr.item[j].val.data[i]
    /\ Unified("sum") /\ SameShapes =>
         /\ arr.err = "none"
         /\ arr.out.den = 1
         /\ Len(arr.out.data) = Len(arr.item[1].val.data)
         /\ \A i \in 1..Len(arr.out.data) : arr.out.data[i] = SumAt(arr.item, i, Len(arr.item))
    /\ Unified("mean") /\ SameShapes =>
         /\ arr.err = "none"
         /\ arr.out.den = Len(arr.item)
         /\ Len(arr.out.data) = Len(arr.item[1].val.data)
         /\ \A i \in 1..Len(arr.out.data) : arr.out.data[i] = SumAt(arr.item, i, Len(arr.item))
    /\ arr.op = "dev_unify_array" /\ arr.mode \notin {"concat", "sum", "mean"} =>
         arr.err # "none"

\* the mean of three clones of an array with a non-zero element
C17_Witness ==
    /\ Unified("mean")
    /\ arr.from = "dev_clone_array"
    /\ Len(arr.item) = 3
    /\ arr.err = "none"
    /\ \E i \in 1..Len(arr.out.data) : arr.out.data[i] = 3

(***************************************************************************)
(* Properties of the device manager                                        *)
(***************************************************************************)
Built == dm.state = "built" /\ dm'.state = "built"

\* a call ran one device allocation step, or one device splitting step
DaRan == dm'.da_tune_count = dm.da_tune_count + 1 /\ dm'.ds_tune_count = dm.ds_tune_count
DsRan == dm'.ds_tune_count = dm.ds_tune_count + 1 /\ dm'.da_tune_count = dm.da_tune_count

\* tuned becomes True only in a tune step that ends on a configuration seen
\* before, with the minimum numbers of steps of the enabled axes reached
TunedOnRepeat ==
    Built /\ ~dm.tuned /\ dm'.tuned =>
        /\ DaRan \/ DsRan
        /\ Config(dm') \in dm.observed_configs
        /\ dm.tune_da => dm'.unit_da_tune_count >= MinUnitDevTuneSteps
        /\ dm.tune_ds => dm'.ds_tune_count >= MinSfTuneSteps

\* C18: the manager becomes tuned only in a tune step whose configuration
\* tuple equals one observed in an earlier step, after at least
\* min_unit_dev_tune_steps unit-step DA iterations (DA enabled) and at least
\* min_sf_tune_steps DS steps (DS enabled), whichever axes are enabled.
C18_TunedOnlyOnRepeat == [][TunedOnRepeat]_vars

\* with both axes enabled DA runs when as many DA as DS steps have run and DS
\* when one more DA step has run; with one axis enabled only that axis runs
Alternates ==
    Built /\ ~dm.tuned /\ StepsRun(dm') # StepsRun(dm) =>
        IF dm.tune_da /\ dm.tune_ds
        THEN IF dm.da_tune_count = dm.ds_tune_count THEN DaRan
             ELSE dm.da_tune_count = dm.ds_tune_count + 1 /\ DsRan
        ELSE IF dm.tune_da THEN DaRan
        ELSE DsRan

\* C19: while the manager is not tuned and both axes are enabled, the tune
\* steps run DA, DS, DA, DS, ... starting with DA; with one axis enabled
\* every tune step is a step of that axis.
C19_Alternation == [][Alternates]_vars

\* DA, DS, DA have run on a manager that tunes both axes
C19_Witness ==
    /\ dm.state = "built"
    /\ dm.tune_da /\ dm.tune_ds
    /\ dm.da_tune_count = 2 /\ dm.ds_tune_count = 1
    /\ ~dm.tuned

\* a returning map call has run one tune step on a manager that was not
\* tuned, and none on a tuned one
OneStepPerMap ==
    dm.state = "built" /\ dm.call.op = "map" /\ dm.call.raised = "none" =>
        IF dm.call.was_tuned
        THEN dm.call.ran = <<>> /\ StepsRun(dm) = dm.call.before
        ELSE Len(dm.call.ran) = 1 /\ StepsRun(dm) = dm.call.before + 1

\* a tuned manager stays tuned and keeps its allocations, split factors and
\* maximum step size
TunedIsFinal ==
    Built /\ dm.tuned =>
        /\ dm'.tuned
        /\ dm'.devs_da = dm.devs_da
        /\ dm'.devs_ds = dm.devs_ds
        /\ dm'.max_dev_dim_step_size = dm.max_dev_dim_step_size

\* C20: a DevManager.map call that returns has run exactly one tune step
\* after the mapped call on a manager that was not tuned and none on a tuned
\* one; a tuned manager stays tuned, and no later tune step or map call
\* changes its allocations, split factors or maximum step size.
C20_OneStepThenFrozen == [](OneStepPerMap) /\ [][TunedIsFinal]_vars

\* map returned on a manager that tuning of the allocation had made tuned
C20_Witness ==
    /\ dm.state = "built"
    /\ dm.tune_da /\ dm.num_devs = 2
    /\ dm.tuned
    /\ dm.da_tune_count > 0
    /\ dm.call.op = "map" /\ dm.call.raised = "none" /\ dm.call.was_tuned

\* a tune step ran with oom=True
OomStep ==
    /\ Built /\ StepsRun(dm') # StepsRun(dm)
    /\ dm'.call.op = "tune_step" /\ dm'.call.oom

\* no split factor is larger and no allocation has more units after the step,
\* and the memory usages the step stored are 100% unless it cleared them
BacksOff ==
    /\ \A k \in Range(dm.devs) : ~RLt(dm.devs_ds[k], dm'.devs_ds[k])
    /\ dm.with_dev_mapping => \A k \in Range(dm.devs) : dm'.devs_da[k] <= dm.devs_da[k]
    /\ dm'.dev_percent_mems # Unset => \A k \in Range(dm.devs) : dm'.dev_percent_mems[k] = 100

\* C21: a tune step (DA or DS) called with oom=True computes with every
\* device's memory usage taken as 100%, and in that step no device's split
\* factor grows and no device gains allocation units.
C21_OomBacksOff == [][OomStep => BacksOff]_vars

\* the units by which the allocations of the two simulated devices differ
AllocGap == Abs(dm.devs_da["d0"] - dm.devs_da["d1"])

\* the manager of the simulated devices is tuned
SimTuned == sim # NoSim /\ dm.tuned

\* a tuned manager is within one shift of its final step size of the even
\* allocation
C22_NearEven == SimTuned => AllocGap <= 2 * dm.max_dev_dim_step_size

SplitFactorsInRange ==
    dm.state = "built" =>
        \A k \in Range(dm.devs) :
            ~RLt(dm.devs_ds[k], FromInt(0)) /\ ~RLt(FromInt(1), dm.devs_ds[k])

\* a DS step raises no split factor by more than max_split_factor_step_size,
\* and the first one by no more than 0.01
BoundedRaise ==
    Built /\ DsRan =>
        \A k \in Range(dm.devs) :
            LET raise == RSub(dm'.devs_ds[k], dm.devs_ds[k])
            IN  /\ ~RLt(MaxSplitFactorStepSize, raise)
                /\ dm.first_ds_tune_step => ~RLt(Rat(1, 100), raise)

\* C23: after construction and after any sequence of DS tune steps every
\* split factor the manager tracks lies in [0,1], and one DS step raises a
\* split factor by at most max_split_factor_step_size, the first (probing)
\* step by at most 0.01.
C23_SplitFactorBounded == [](SplitFactorsInRange) /\ [][BoundedRaise]_vars

\* a later DS step has raised a split factor to the cap of 1
C23_Witness ==
    /\ dm.state = "built"
    /\ dm.ds_tune_count >= 2
    /\ \E k \in Range(dm.devs) : dm.devs_ds[k] = FromInt(1) /\ dm.delta_sfs[k] = MaxSplitFactorStepSize

\* C28: for every backend and every valid device string d ("cpu", "gpu:N",
\* "tpu:N"), converting d to the backend's device handle and back returns d:
\* dev_to_str(dev_from_str(d)) == d.
C28_RoundTrip ==
    /\ conv.backend # "none" => conv.from_raised = "none"
    /\ conv.done => conv.to_raised = "none" /\ conv.back = StrHandle(conv.d)

\* the device strings of the grammar cpu | gpu:<N> | tpu:<N>
Canonical(d) ==
    \/ d = cpu
    \/ \E t \in {gpu, tpu} :
          /\ StartsWith(d, t \o <<":">>)
          /\ Len(d) > 4
          /\ \A i \in 5..Len(d) : d[i] \in Digits

\* a set_default_device call with a well-formed string has pushed it
PushedOnTop ==
    dd.op \in {"set_default_device", "__enter__"} /\ Canonical(dd.dev) =>
        dd.raised = "none" /\ default_device_stack = Append(dd.before, dd.dev)

\* an unset_default_device call has popped the top, if there was one
PoppedTop ==
    dd.op \in {"unset_default_device", "__exit__"} =>
        /\ dd.before # <<>> => default_device_stack = Front(dd.before)
        /\ dd.before = <<>> => default_device_stack = <<>>

\* a block whose body left the stack as it found it has restored the stack
\* it was entered on
BlockRestoresDepth ==
    [][dd'.op = "__exit__" /\ dd.blocks # <<>> /\ Len(dd'.blocks) < Len(dd.blocks)
       /\ default_device_stack = Append(Last(dd.blocks).before, Last(dd.blocks).dev)
          => default_device_stack' = Last(dd.blocks).before]_vars

\* C24: set_default_device with a well-formed device string makes the
\* Default Device Stack exactly one entry longer with that string on top,
\* unset_default_device makes it exactly one entry shorter (and does nothing
\* on an empty stack), entering and leaving a DefaultDevice block do the same
\* push and pop, and after properly nested blocks the stack is as deep as it
\* was before them.
C24_PushPop == [](PushedOnTop /\ PoppedTop) /\ BlockRestoresDepth

\* the inner of two nested blocks has been left, on a stack that held an
\* entry before them
C24_Witness ==
    /\ dd.op = "__exit__"
    /\ Len(dd.blocks) = 1
    /\ Len(dd.blocks[1].before) = 1
    /\ default_device_stack = Append(dd.blocks[1].before, dd.blocks[1].dev)

\* C25: set_default_device called with a malformed device string raises an
\* error and leaves the Default Device Stack exactly as it was; the check
\* happens before anything is pushed.
C25_BadPushRejected ==
    dd.op = "set_default_device" /\ ~Canonical(dd.dev) =>
        dd.raised # "none" /\ default_device_stack = dd.before

\* what default_device returned, as a device string of the backend
ReturnedDev == dev_to_str(dd.backend, dd.ret)

\* C26: default_device(dev) returns dev itself when dev is given and
\* well-formed; when dev is omitted it returns the device on top of the
\* Default Device Stack if the stack is non-empty, and otherwise "gpu:0" if a
\* GPU is available and "cpu" if not; it never changes the stack.
C26_DefaultDevice ==
    dd.op = "default_device" =>
        /\ default_device_stack = dd.before
        /\ dd.given /\ Canonical(dd.dev) =>
              dd.raised = "none" /\ dd.ret = StrHandle(dd.dev)
        /\ ~dd.given /\ dd.before # <<>> =>
              /\ dd.raised = "none"
              /\ ReturnedDev.raised = "none"
              /\ ReturnedDev.val = StrHandle(Last(dd.before))
        /\ ~dd.given /\ dd.before = <<>> =>
              /\ dd.raised = "none"
              /\ ReturnedDev.raised = "none"
              /\ ReturnedDev.val.s \in {cpu, gpu \o <<":", "0">>}

\* C27: the device-string check of set_default_device and default_device
\* accepts a string exactly when it belongs to the grammar
\* cpu | gpu:<N> | tpu:<N> with <N> a non-negative decimal integer; every
\* other string is rejected with an error.
C27_CheckIsGrammar ==
    dd.op = "set_default_device" => (dd.raised = "none" <=> Canonical(dd.dev))

\* the units the memory of device k permits after a DA step of m:
\* floor(((100 - memory%) / max(memory% gained per unit, 0.1)) / safety_factor)
PermissibleUnits(m, k) ==
    RFloor(RDiv(RDiv(FromInt(100 - m.dev_percent_mems[k]),
                     RMax(m.percent_mem_inc_per_unit_da_dim[k], Rat(1, 10))),
                SafetyFactor))

\* a later DA step gives no device more units than its memory permits
WithinPermissible ==
    Built /\ DaRan /\ ~dm.first_da_tune_step /\ dm'.dev_percent_mems # Unset =>
        \A k \in Range(dm.devs) :
            dm'.devs_da[k] - dm.devs_da[k] <= PermissibleUnits(dm', k)

\* C30: in every non-first DA tune step no device's allocation is increased
\* by more than its memory-permissible number of units; in particular a
\* device whose memory usage is at 100% receives no additional allocation.
C30_MemoryCeiling == [][WithinPermissible]_vars

\* the length of the split axis, and the chunks of one axis length each that
\* the i-th input was passed to func in
AxisLen == Shape(sfc.inputs[1], sfc.input_axes)
ChunksOf(i) == [j \in 1..Len(sfc.calls) |-> sfc.calls[j][i]]
ChunkLen(j) == Shape(sfc.calls[j][1], sfc.input_axes)

\* C29: for a function that acts independently on each index along the split
\* axis, split_func_call(func, inputs, 'concat', chunk_size=c, input_axes=a)
\* returns the values of func on the unsplit inputs, for every c >= 1: the
\* inputs are cut into consecutive chunks of size c plus one non-empty
\* smaller last chunk when c does not divide the axis length, the chunk sizes
\* sum to the axis length, the outputs are concatenated in chunk order, and
\* func is called once on the whole inputs when c is not smaller than the
\* axis length.
C29_SplitCallEqualsCall ==
    sfc.op = "split_func_call" =>
        LET c == sfc.chunk_size
            n == Len(sfc.calls)
        IN  /\ sfc.ret = func(sfc.inputs[1], sfc.inputs[2])
            /\ c >= AxisLen => sfc.calls = <<sfc.inputs>>
            /\ c < AxisLen =>
                  /\ n = (AxisLen + c - 1) \div c
                  /\ \A j \in 1..(n - 1) : ChunkLen(j) = c
                  /\ ChunkLen(n) = AxisLen - c * (n - 1)
                  /\ ChunkLen(n) \in 1..c
                  /\ \A i \in 1..2 :
                        ConcatAlong(ChunksOf(i), sfc.input_axes) = sfc.inputs[i]

\* three columns were cut into chunks of two and one
C29_Witness ==
    /\ sfc.op = "split_func_call"
    /\ sfc.input_axes = 1 /\ sfc.chunk_size = 2
    /\ Len(sfc.inputs[1].data) = 2 /\ AxisLen = 3
    /\ Len(sfc.calls) = 2
    /\ sfc.ret[1].data = <<<<0, 4, 12>>, <<24, 40, 60>>>>

\* C31: after construction and after any sequence of DA tune steps every
\* device's allocation is at least min_dev_dim_size, so none is negative
C31_AllocAtLeastMin ==
    (dm.state = "built" /\ dm.devs_da # Unset)
        => \A k \in DOMAIN dm.devs_da : dm.devs_da[k] >= MinDevDimSize

\* the sum of the allocations of a manager, and of its allocation ratios
AllocSum(m) == Sum(m.devs_da, m.devs)
RECURSIVE RatioSumTo(_, _)
RatioSumTo(m, i) == IF i = 0 THEN FromInt(0)
                    ELSE RAdd(RatioSumTo(m, i - 1), m.dev_da_ratios[m.devs[i]])
RatioSum(m) == RatioSumTo(m, m.num_devs)

\* a manager built with a device mapper and a dimension size
Allocating == dm.state = "built" /\ dm.with_dev_mapping

\* the allocations add up to the dimension size and the ratios to 1
SumsKept == Allocating => AllocSum(dm) = dm.dim_size /\ RatioSum(dm) = FromInt(1)

\* a DA step changes no allocation by more than the maximum step size it
\* ends with
WithinStepSize ==
    Built /\ DaRan =>
        \A k \in Range(dm.devs) :
            Abs(dm'.devs_da[k] - dm.devs_da[k]) <= dm'.max_dev_dim_step_size

\* C32: for a Device Manager built with a device mapper, a dimension size and
\* a list of devices (uniform initial ratios), the per-device allocations sum
\* to the dimension size after construction and after every DA tune step: a
\* step only moves units between devices, each device's change is at most the
\* current maximum step size, and the derived ratios sum to 1.
C32_AllocationsSum == [](SumsKept) /\ [][WithinStepSize]_vars

\* three devices share five units after two DA steps that moved units
C32_Witness ==
    /\ Allocating /\ dm.num_devs = 3 /\ dm.dim_size = 5
    /\ dm.da_tune_count = 2
    /\ dm.devs_da = [d0 |-> 3, d1 |-> 2, d2 |-> 0]

\* the shift direction of device k in a DA step that reads the utilizations
\* utils: 1 for the less utilized half of the rank order, -1 for the others
ShiftDirection(m, utils, k) ==
    IF IndexOf(SortedKeys(m.devs, utils), k) < m.num_devs \div 2 THEN 1 ELSE -1

\* every device's direction in the step to dm' is the opposite of its
\* direction in the step before it
AllOpposite ==
    \A k \in Range(dm.devs) :
        ShiftDirection(dm, dm'.dev_utils, k) * ShiftDirection(dm, dm.dev_utils, k) < 0

\* a DA step that is not the first, on a manager whose step size exceeds 1
LaterWideStep ==
    /\ Built /\ DaRan /\ ~dm.tuned
    /\ ~dm.first_da_tune_step /\ dm.max_dev_dim_step_size > 1

HalvedOnFlip ==
    LaterWideStep =>
        dm'.max_dev_dim_step_size =
            IF AllOpposite THEN Max(RRound(Rat(dm.max_dev_dim_step_size, 2)), 1)
            ELSE dm.max_dev_dim_step_size

\* the maximum step size never grows and never drops below 1
StepSizeShrinks ==
    Built => /\ dm'.max_dev_dim_step_size <= dm.max_dev_dim_step_size
             /\ dm'.max_dev_dim_step_size >= 1

\* C33: in a non-first DA tune step with maximum step size > 1, the maximum
\* step size is halved (to max(round(size/2), 1)) exactly when every device's
\* shift direction, derived from the utilization rank order, is the opposite
\* of its direction in the previous step, and is left unchanged otherwise; the
\* maximum step size therefore never grows during tuning and never drops
\* below 1.
C33_HalvesOnFlip == [][HalvedOnFlip /\ StepSizeShrinks]_vars

\* the state of the framework handler before any backend was set
FreshState == [stack |-> <<>>, dds |-> <<>>, ns |-> IvyNamespace, snap |-> IvyNamespace,
               fnd |-> EmptyDict, mods |-> ModuleNamespace]

\* the state after set_framework of the modules of stack, bottom first, on a
\* fresh state
RECURSIVE PushedAfresh(_)
PushedAfresh(stack) ==
    IF stack = <<>> THEN FreshState
    ELSE set_framework_module(PushedAfresh(Front(stack)), Last(stack)).st

\* C34: after an unset_framework call that leaves the stack non-empty, the
\* public namespace is the same as the one obtained by pushing the remaining
\* stack onto a fresh state: no name stays bound to a value of the popped
\* module, and no name the new top defines is missing.
C34_PopEqualsFreshPush ==
    last.op = "unset_framework" /\ framework_stack # <<>>
        => ivy_dict = PushedAfresh(framework_stack).ns

\* C35: every result that DevMapper.map returns for a device in a given call
\* was computed by that device's worker from the work item enqueued for it in
\* that same call, also when an earlier map call ended with a timeout error
\* while a worker was still computing.
C35_ResultsOfThisCall ==
    coord.outcome = "returned" =>
        \A i \in 1..Len(coord.ret) :
            coord.ret[i] = Result(Item(coord.call, coord.used[i]), coord.used[i])

\* C36: when the Device Manager runs without a device mapper, after every DS
\* tune step the global split factor of each device (the value
\* split_factor(dev) returns) equals the split factor the manager tracks for
\* that device and uses for its convergence check.
C36_GlobalEqualsTracked ==
    dm.state = "built" /\ ~dm.with_dev_mapping /\ dm.tune_ds /\ dm.ds_tune_count > 0
        => \A k \in Range(dm.devs) : dm.split_factors[k] = dm.devs_ds[k]

\* the concatenation of the arrays of a multi-device item, in device order
Whole(data) == concat([j \in 1..Len(data) |-> data[j].val])

\* C37: dev_dist_array called with a mapping device -> chunk size gives every
\* device in the mapping one contiguous chunk of exactly its mapped size, in
\* mapping order, for every mapping of positive sizes.
C37_ChunksOfMappedSize ==
    mdi.op = "dev_dist_array" =>
        /\ mdi.err = "none"
        /\ dict_keys(mdi.item) = mdi.devs
        /\ \A j \in 1..Len(mdi.item) : Len(mdi.item[j].val.data) = mdi.sizes[j]
        /\ Whole(mdi.item) = SubSeq(mdi.x.data, 1, Len(Whole(mdi.item)))

\* C38: the shape reported by a multi-device item is, along the split axis,
\* the sum of the per-device chunk lengths for a DevDistItem (also when the
\* chunks have different lengths) and, for a DevClonedItem, the same shape as
\* each per-device copy.
C38_ItemShape ==
    mdi.asked = "shape" =>
        /\ mdi.shape.raised = "none" /\ ~mdi.shape.is_none
        /\ mdi.kind = "DevDistItem" => mdi.shape.shape = <<Len(Whole(mdi.item))>>
        /\ mdi.kind = "DevClonedItem" =>
              \A j \in 1..Len(mdi.item) : mdi.shape.shape = shape(mdi.item[j].val)

\* C40: indexing a multi-device item with an integer i or a slice [a, b)
\* within bounds returns per-device pieces whose concatenation in device order
\* is exactly elements a..b-1 of the concatenation of the whole item, for
\* every split of the item over the devices; devices holding none of the
\* requested elements get no entry.
C40_SliceIsRange ==
    mdi.asked = "getitem" =>
        /\ Whole(mdi.ret) = SubSeq(Whole(mdi.item), mdi.query.start + 1, mdi.query.stop)
        /\ \A j \in 1..Len(mdi.ret) : mdi.ret[j].val.data # <<>>

\* C39: an exception raised inside a `with DefaultDevice(dev):` block reaches
\* the caller of the block, after the entry pushed on entry has been popped;
\* the block never turns a failing body into a normal completion.
C39_ExceptionLeavesBlock ==
    [][dd.exc /\ Len(dd'.blocks) < Len(dd.blocks) =>
          /\ dd'.exc
          /\ default_device_stack' = Front(default_device_stack)]_vars

====
